---- MODULE Spec2Model ----
(***************************************************************************)
(* Model of color-tool.py: the colour utilities, the blend calculator, the *)
(* XPM palette parser / rewriter, the marker-family detector, the family   *)
(* colour mapper and the XFWM4 generation from a template folder.          *)
(*                                                                         *)
(* Text is modelled at the character level: a str is a sequence of         *)
(* one-character strings, so that the regular expressions, str.lower(),    *)
(* str.splitlines() and the universal-newline file reading of the source   *)
(* are computed and not assumed.                                           *)
(*                                                                         *)
(* Python floats are modelled in fixed point.  A channel value r/255 is    *)
(* the integer r (unit 1/255); hue, lightness and saturation are integers  *)
(* in units of 1/HlsUnit; mixing factors and opacities are in units of     *)
(* 1/PerMille.  Every rounding is round-half-even, as Python's round().    *)
(* rgb_distance is kept squared (unit 1/255^2): the square root is         *)
(* monotone, so comparisons and the sort order are those of the source.    *)
(* The colours and intensities the specifications below draw from are      *)
(* ones for which this arithmetic gives the same result as the IEEE        *)
(* doubles of the source.                                                  *)
(***************************************************************************)
EXTENDS Integers, Sequences, FiniteSets, TLC

VARIABLES
    templates,  \* theme root: candidate template folder name -> NoEntry, IsFile or a tree
    xfwm4,      \* theme root: the xfwm4 directory, NoEntry or a tree
    backups,    \* theme root: the xfwm4-backups directory, NoEntry or stamp -> tree
    now,        \* the wall clock, in whole seconds (time.strftime resolution)
    call,       \* last call of generate_xfwm4_from_template_sentinel: arguments, state before, results
    blendIO,    \* a call of compute_final_color_and_opacity: arguments and result
    rcIO,       \* a call of recolor_xpm_palette_with_mapping: file, mapping and result
    famIO,      \* a call of build_marker_family_colors: files, flag and result
    fnIO,       \* a call of map_family_color, normalize_hex or hue_delta_signed
    ui          \* the window: its settings, its pending timers and what they ran

vars == <<templates, xfwm4, backups, now, call, blendIO, rcIO, famIO, fnIO, ui>>

Idle == [op |-> "idle"]

\* ------------------------------------------------------------------------
\* Characters and strings
\* ------------------------------------------------------------------------

Min(S) == CHOOSE x \in S : \A y \in S : x <= y
Max(S) == CHOOSE x \in S : \A y \in S : x >= y

\* the characters of the model, in code-point order
Alphabet ==
    << "\t", "\n", "\f", "\r", " ", "#", "+", "-", ".", "/",
       "0", "1", "2", "3", "4", "5", "6", "7", "8", "9", "@",
       "A", "B", "C", "D", "E", "F", "M", "N", "P", "X",
       "a", "b", "c", "d", "e", "f", "g", "h", "i", "l", "m", "n", "o",
       "p", "r", "s", "t", "u", "x", "z" >>

IndexOf(seq, x) == CHOOSE i \in 1..Len(seq) : seq[i] = x

\* The function f as an explicit sequence / an explicit function on D (the
\* same value; it keeps the model checker from re-evaluating the
\* constructor each time the value is read)
AsSeq(f) == SubSeq(f, 1, Len(f))

RECURSIVE AsFcn(_, _)
AsFcn(f, D) ==
    IF D = {} THEN << >>
    ELSE LET x == CHOOSE y \in D : TRUE
         IN  (x :> f[x]) @@ AsFcn(f, D \ {x})

\* ord(ch)
Code(ch) == IndexOf(Alphabet, ch)

UpperLetters == << "A", "B", "C", "D", "E", "F", "M", "N", "P", "X" >>
LowerLetters == << "a", "b", "c", "d", "e", "f", "m", "n", "p", "x" >>

\* str.lower() on one character
Lower(ch) ==
    IF \E i \in 1..Len(UpperLetters) : UpperLetters[i] = ch
    THEN LowerLetters[IndexOf(UpperLetters, ch)]
    ELSE ch

\* str.lower()
LowerStr(s) == AsSeq([i \in 1..Len(s) |-> Lower(s[i])])

\* the characters matched by \s and removed by str.strip()
Whitespace == {" ", "\t", "\n", "\r", "\f"}

\* the characters matched by [0-9a-fA-F]
HexDigits == {"0", "1", "2", "3", "4", "5", "6", "7", "8", "9",
              "a", "b", "c", "d", "e", "f", "A", "B", "C", "D", "E", "F"}

HexChars == << "0", "1", "2", "3", "4", "5", "6", "7", "8", "9",
               "a", "b", "c", "d", "e", "f" >>

\* int(ch, 16)
HexVal(ch) == IndexOf(HexChars, Lower(ch)) - 1

\* "{:02x}".format(v)
Hex2(v) == << HexChars[(v \div 16) + 1], HexChars[(v % 16) + 1] >>

\* str.strip()
Strip(s) ==
    LET keep == {i \in 1..Len(s) : s[i] \notin Whitespace}
    IN  IF keep = {} THEN << >> ELSE SubSeq(s, Min(keep), Max(keep))

\* the Python value None, and a raised ValueError
NoneValue == << "<None>" >>
ValueError == << "<ValueError>" >>

\* ------------------------------------------------------------------------
\* Utilities
\* ------------------------------------------------------------------------

XFWM4_MARKER_HEX == << "#", "e", "2", "d", "a", "9", "d" >>

\* 0.26, in hundredths
XFWM4_RGB_DISTANCE_THRESHOLD == 26

XFWM4_BUTTON_PREFIXES ==
    { << "c", "l", "o", "s", "e" >>,
      << "h", "i", "d", "e" >>,
      << "m", "a", "x", "i", "m", "i", "z", "e" >>,
      << "m", "e", "n", "u" >>,
      << "s", "h", "a", "d", "e" >>,
      << "s", "t", "i", "c", "k" >> }

\* units of the fixed-point numbers
HlsUnit == 30600
PerMille == 1000
ByteMax == 255

clamp(x, lo, hi) == IF x < lo THEN lo ELSE IF x > hi THEN hi ELSE x

\* round(n / d) for n >= 0, d > 0: round half to even
RoundDiv(n, d) ==
    LET q == n \div d
        r == n % d
    IN  IF 2 * r > d \/ (2 * r = d /\ q % 2 = 1) THEN q + 1 ELSE q

\* Mutation of normalize_hex: a longer string is cut to its first 7 characters.
normalize_hex_Truncating(s) ==
    LET t == Strip(IF s = NoneValue THEN << >> ELSE s)
        u == IF Len(t) > 0 /\ t[1] = "#" THEN t ELSE << "#" >> \o t
    IN  IF Len(u) >= 7 /\ \A i \in 2..7 : u[i] \in HexDigits
        THEN LowerStr(SubSeq(u, 1, 7))
        ELSE ValueError

normalize_hex(s) ==
    LET t == Strip(IF s = NoneValue THEN << >> ELSE s)
        u == IF Len(t) > 0 /\ t[1] = "#" THEN t ELSE << "#" >> \o t
    IN  IF Len(u) = 7 /\ \A i \in 2..7 : u[i] \in HexDigits
        THEN LowerStr(u)
        ELSE ValueError

\* the channels, each in units of 1/255; the argument is a valid colour
hex_to_rgb01(hex_color) ==
    LET h == normalize_hex(hex_color)
    IN  << 16 * HexVal(h[2]) + HexVal(h[3]),
           16 * HexVal(h[4]) + HexVal(h[5]),
           16 * HexVal(h[6]) + HexVal(h[7]) >>

\* rgb is in units of 1/unit
rgb01_to_hex(rgb, unit) ==
    LET r8 == RoundDiv(clamp(rgb[1], 0, unit) * ByteMax, unit)
        g8 == RoundDiv(clamp(rgb[2], 0, unit) * ByteMax, unit)
        b8 == RoundDiv(clamp(rgb[3], 0, unit) * ByteMax, unit)
    IN  << "#" >> \o Hex2(r8) \o Hex2(g8) \o Hex2(b8)

\* the squared distance, in units of 1/255^2
rgb_distance(a, b) ==
    (a[1] - b[1]) * (a[1] - b[1]) + (a[2] - b[2]) * (a[2] - b[2])
        + (a[3] - b[3]) * (a[3] - b[3])

\* d <= XFWM4_RGB_DISTANCE_THRESHOLD for a squared distance d
WithinThreshold(d) ==
    d * 10000 <= XFWM4_RGB_DISTANCE_THRESHOLD * XFWM4_RGB_DISTANCE_THRESHOLD
                    * ByteMax * ByteMax

\* a, b in units of 1/255, t in units of 1/PerMille; result in units of 1/(255 * PerMille)
mix_rgb01(a, b, t) ==
    LET tc == clamp(t, 0, PerMille)
    IN  << (PerMille - tc) * a[1] + tc * b[1],
           (PerMille - tc) * a[2] + tc * b[2],
           (PerMille - tc) * a[3] + tc * b[3] >>

\* Mutation of compute_final_color_and_opacity: with transparency the opacity
\* falls as the intensity grows.
compute_final_color_and_opacity_FallingOpacity(base_hex, enable_transparency, intensity_0_100) ==
    LET base == normalize_hex(base_hex)
        t == clamp(intensity_0_100 * 10, 0, PerMille)
        white == << ByteMax, ByteMax, ByteMax >>
        mix_t == IF enable_transparency THEN 100 + (900 * t) \div PerMille ELSE t
        opacity == IF enable_transparency THEN 900 - (800 * t) \div PerMille ELSE PerMille
    IN  IF base = ValueError
        THEN ValueError
        ELSE << rgb01_to_hex(mix_rgb01(white, hex_to_rgb01(base), mix_t), ByteMax * PerMille),
                opacity >>

\* Mutation of compute_final_color_and_opacity: the mixing factor of the
\* transparent branch is used in both branches.
compute_final_color_and_opacity_SharedMix(base_hex, enable_transparency, intensity_0_100) ==
    LET base == normalize_hex(base_hex)
        t == clamp(intensity_0_100 * 10, 0, PerMille)
        white == << ByteMax, ByteMax, ByteMax >>
        mix_t == 100 + (900 * t) \div PerMille
        opacity == IF enable_transparency THEN 100 + (800 * t) \div PerMille ELSE PerMille
    IN  IF base = ValueError
        THEN ValueError
        ELSE << rgb01_to_hex(mix_rgb01(white, hex_to_rgb01(base), mix_t), ByteMax * PerMille),
                opacity >>

\* Mutation of compute_final_color_and_opacity: the opacity of the
\* transparent branch is used in both branches.
compute_final_color_and_opacity_SharedOpacity(base_hex, enable_transparency, intensity_0_100) ==
    LET base == normalize_hex(base_hex)
        t == clamp(intensity_0_100 * 10, 0, PerMille)
        white == << ByteMax, ByteMax, ByteMax >>
        mix_t == IF enable_transparency THEN 100 + (900 * t) \div PerMille ELSE t
        opacity == 100 + (800 * t) \div PerMille
    IN  IF base = ValueError
        THEN ValueError
        ELSE << rgb01_to_hex(mix_rgb01(white, hex_to_rgb01(base), mix_t), ByteMax * PerMille),
                opacity >>

\* returns <<colour, opacity in units of 1/PerMille>>, or ValueError
compute_final_color_and_opacity(base_hex, enable_transparency, intensity_0_100) ==
    LET base == normalize_hex(base_hex)
        t == clamp(intensity_0_100 * 10, 0, PerMille)
        white == << ByteMax, ByteMax, ByteMax >>
        mix_t == IF enable_transparency THEN 100 + (900 * t) \div PerMille ELSE t
        opacity == IF enable_transparency THEN 100 + (800 * t) \div PerMille ELSE PerMille
    IN  IF base = ValueError
        THEN ValueError
        ELSE << rgb01_to_hex(mix_rgb01(white, hex_to_rgb01(base), mix_t), ByteMax * PerMille),
                opacity >>

\* ------------------------------------------------------------------------
\* Palette text: reading, parsing and rewriting an XPM file
\* ------------------------------------------------------------------------

\* Path.read_text(): text mode with universal newlines, "\r\n" and "\r"
\* are read as "\n" (the characters of the model are ASCII, so decoding
\* with errors="replace" changes nothing else)
RECURSIVE read_text(_)
read_text(bytes) ==
    IF bytes = << >> THEN << >>
    ELSE IF bytes[1] = "\r"
         THEN IF Len(bytes) >= 2 /\ bytes[2] = "\n"
              THEN << "\n" >> \o read_text(SubSeq(bytes, 3, Len(bytes)))
              ELSE << "\n" >> \o read_text(Tail(bytes))
         ELSE << bytes[1] >> \o read_text(Tail(bytes))

\* the line boundaries of str.splitlines() among the characters of the model
LineBoundaries == {"\n", "\r", "\f"}

RECURSIVE SplitFrom(_, _, _)
SplitFrom(text, i, cur) ==
    IF i > Len(text)
    THEN IF cur = << >> THEN << >> ELSE << cur >>
    ELSE IF text[i] \in LineBoundaries
         THEN LET step == IF text[i] = "\r" /\ i < Len(text) /\ text[i + 1] = "\n"
                          THEN 2 ELSE 1
              IN  << cur >> \o SplitFrom(text, i + step, << >>)
         ELSE SplitFrom(text, i + 1, Append(cur, text[i]))

\* str.splitlines()
splitlines(text) == SplitFrom(text, 1, << >>)

\* sep.join(lines)
RECURSIVE join(_, _)
join(sep, lines) ==
    IF lines = << >> THEN << >>
    ELSE IF Len(lines) = 1 THEN lines[1]
    ELSE lines[1] \o sep \o join(sep, Tail(lines))

\* str.endswith("\n")
EndsWithNewline(text) == Len(text) > 0 /\ text[Len(text)] = "\n"

\* the first position at or after i that holds no whitespace (Len + 1 if none)
WsRunEnd(line, i) ==
    Min({j \in i..(Len(line) + 1) : j = Len(line) + 1 \/ line[j] \notin Whitespace})

\* \s+c\s+ matched at position i: the position after the match, 0 if no match
SepMatchAt(line, i) ==
    LET j == WsRunEnd(line, i)
    IN  IF j > i /\ j <= Len(line) /\ line[j] = "c"
        THEN LET k == WsRunEnd(line, j + 1)
             IN  IF k > j + 1 THEN k ELSE 0
        ELSE 0

NoMatch == << "<no match>" >>
NoneWord == << "N", "o", "n", "e" >>

\* (#[0-9A-Fa-f]{6}|None) matched at position k: the group, or NoMatch
TokenAt(line, k) ==
    IF /\ k + 6 <= Len(line)
       /\ line[k] = "#"
       /\ \A d \in 1..6 : line[k + d] \in HexDigits
    THEN SubSeq(line, k, k + 6)
    ELSE IF k + 3 <= Len(line) /\ SubSeq(line, k, k + 3) = NoneWord
         THEN NoneWord
         ELSE NoMatch

\* HEX_RE.search(line): start, tok (the position of group 1) and group 1;
\* the group is NoMatch when the line does not match
HEX_RE_search(line) ==
    LET starts == {i \in 1..Len(line) :
                      /\ SepMatchAt(line, i) # 0
                      /\ TokenAt(line, SepMatchAt(line, i)) # NoMatch}
    IN  IF starts = {} THEN [start |-> 0, tok |-> 0, group |-> NoMatch]
        ELSE LET i == Min(starts)
             IN  [start |-> i, tok |-> SepMatchAt(line, i),
                  group |-> TokenAt(line, SepMatchAt(line, i))]

\* the list of (line index from 0, lower-case colour)
parse_palette_lines(text) ==
    LET lines == splitlines(text)
        found == [i \in 1..Len(lines) |-> << i - 1, HEX_RE_search(lines[i]) >>]
        kept == SelectSeq(found, LAMBDA e :
                    e[2].group # NoMatch /\ LowerStr(e[2].group) # LowerStr(NoneWord))
    IN  AsSeq([n \in 1..Len(kept) |-> << kept[n][1], LowerStr(kept[n][2].group) >>])

\* the first position where the literal sub occurs in line, 0 if none
FindLiteral(line, sub) ==
    LET at == {i \in 1..(Len(line) - Len(sub) + 1) :
                  SubSeq(line, i, i + Len(sub) - 1) = sub}
    IN  IF at = {} THEN 0 ELSE Min(at)

ReplaceAt(line, k, old, new) ==
    SubSeq(line, 1, k - 1) \o new \o SubSeq(line, k + Len(old), Len(line))

\* re.subn(rf"(\s+c\s+){re.escape(hx)}(\s*)", rf"\1{new_hex}\2", line, count=1),
\* and line.replace(hx, new_hex, 1) when it substitutes nothing
RewriteLine(line, hx, new_hex) ==
    LET starts == {i \in 1..Len(line) :
                      /\ SepMatchAt(line, i) # 0
                      /\ SepMatchAt(line, i) + Len(hx) - 1 <= Len(line)
                      /\ SubSeq(line, SepMatchAt(line, i),
                                SepMatchAt(line, i) + Len(hx) - 1) = hx}
    IN  IF starts # {}
        THEN ReplaceAt(line, SepMatchAt(line, Min(starts)), hx, new_hex)
        ELSE IF FindLiteral(line, hx) # 0
             THEN ReplaceAt(line, FindLiteral(line, hx), hx, new_hex)
             ELSE line

\* Mutation of RecolorLoop: a replacement that is a key is replaced in turn.
RECURSIVE RecolorLoop_FollowsChain(_, _, _, _, _)
RecolorLoop_FollowsChain(palette, n, mapping, lines, changed) ==
    IF n > Len(palette) THEN [lines |-> lines, changed |-> changed]
    ELSE IF palette[n][2] \notin DOMAIN mapping
    THEN RecolorLoop_FollowsChain(palette, n + 1, mapping, lines, changed)
    ELSE IF mapping[palette[n][2]] = palette[n][2]
    THEN RecolorLoop_FollowsChain(palette, n + 1, mapping, lines, changed)
    ELSE RecolorLoop_FollowsChain(palette, n + 1, mapping,
             [lines EXCEPT ![palette[n][1] + 1] =
                 RewriteLine(lines[palette[n][1] + 1], palette[n][2],
                     IF mapping[palette[n][2]] \in DOMAIN mapping
                     THEN mapping[mapping[palette[n][2]]]
                     ELSE mapping[palette[n][2]])],
             changed + 1)

\* Mutation of RecolorLoop: every line whose colour is a key is counted.
RECURSIVE RecolorLoop_CountsKeys(_, _, _, _, _)
RecolorLoop_CountsKeys(palette, n, mapping, lines, changed) ==
    IF n > Len(palette) THEN [lines |-> lines, changed |-> changed]
    ELSE IF palette[n][2] \notin DOMAIN mapping
    THEN RecolorLoop_CountsKeys(palette, n + 1, mapping, lines, changed)
    ELSE RecolorLoop_CountsKeys(palette, n + 1, mapping,
             [lines EXCEPT ![palette[n][1] + 1] =
                 RewriteLine(lines[palette[n][1] + 1], palette[n][2],
                             mapping[palette[n][2]])],
             changed + 1)

\* the loop over the palette: [lines, changed] after the entries from n on
RECURSIVE RecolorLoop(_, _, _, _, _)
RecolorLoop(palette, n, mapping, lines, changed) ==
    IF n > Len(palette) THEN [lines |-> lines, changed |-> changed]
    ELSE LET idx == palette[n][1]
             hx == palette[n][2]
         IN  IF hx \notin DOMAIN mapping \/ mapping[hx] = hx
             THEN RecolorLoop(palette, n + 1, mapping, lines, changed)
             ELSE LET line == lines[idx + 1]
                      new_line == RewriteLine(line, hx, mapping[hx])
                  IN  IF new_line # line
                      THEN RecolorLoop(palette, n + 1, mapping,
                                       [lines EXCEPT ![idx + 1] = new_line], changed + 1)
                      ELSE RecolorLoop(palette, n + 1, mapping, lines, changed)

\* [changed |-> the returned count, bytes |-> the content of the file afterwards]
recolor_xpm_palette_with_mapping(bytes, mapping) ==
    LET txt == read_text(bytes)
        res == RecolorLoop(parse_palette_lines(txt), 1, mapping, splitlines(txt), 0)
    IN  [changed |-> res.changed,
         bytes |-> IF res.changed > 0
                   THEN join(<< "\n" >>, res.lines)
                            \o (IF EndsWithNewline(txt) THEN << "\n" >> ELSE << >>)
                   ELSE bytes]

\* ------------------------------------------------------------------------
\* HLS conversions (colorsys) and the family colour mapper
\* ------------------------------------------------------------------------

Max3(t) == Max({t[1], t[2], t[3]})
Min3(t) == Min({t[1], t[2], t[3]})

\* colorsys.rgb_to_hls, the hue of a colour that is not grey
HlsHue(r, g, b, maxc, rangec) ==
    LET rc == RoundDiv((maxc - r) * HlsUnit, rangec)
        gc == RoundDiv((maxc - g) * HlsUnit, rangec)
        bc == RoundDiv((maxc - b) * HlsUnit, rangec)
        h6 == IF r = maxc THEN bc - gc
              ELSE IF g = maxc THEN 2 * HlsUnit + rc - bc
              ELSE 4 * HlsUnit + gc - rc
    IN  RoundDiv(h6 % (6 * HlsUnit), 6) % HlsUnit

\* colorsys.rgb_to_hls, the saturation of a colour that is not grey
HlsSaturation(maxc, minc, l) ==
    IF 2 * l <= HlsUnit
    THEN RoundDiv((maxc - minc) * HlsUnit, maxc + minc)
    ELSE RoundDiv((maxc - minc) * HlsUnit, 2 * HlsUnit - maxc - minc)

\* colorsys.rgb_to_hls, once maxc and minc are known
HlsOfExtremes(r, g, b, maxc, minc) ==
    IF minc = maxc
    THEN << 0, RoundDiv(maxc + minc, 2), 0 >>
    ELSE << HlsHue(r, g, b, maxc, maxc - minc),
            RoundDiv(maxc + minc, 2),
            HlsSaturation(maxc, minc, RoundDiv(maxc + minc, 2)) >>

\* colorsys.rgb_to_hls, for channels in units of 1/HlsUnit
HlsOfChannels(r, g, b) ==
    HlsOfExtremes(r, g, b, Max3(<< r, g, b >>), Min3(<< r, g, b >>))

\* colorsys.rgb_to_hls: rgb in units of 1/255, the result in units of 1/HlsUnit
rgb01_to_hls(rgb) ==
    HlsOfChannels(rgb[1] * (HlsUnit \div ByteMax), rgb[2] * (HlsUnit \div ByteMax),
                  rgb[3] * (HlsUnit \div ByteMax))

\* colorsys._v
HlsV(m1, m2, hue) ==
    LET h == hue % HlsUnit
    IN  IF 6 * h < HlsUnit
        THEN m1 + RoundDiv((m2 - m1) * h * 6, HlsUnit)
        ELSE IF 2 * h < HlsUnit
             THEN m2
             ELSE IF 3 * h < 2 * HlsUnit
                  THEN m1 + RoundDiv((m2 - m1) * ((2 * HlsUnit) \div 3 - h) * 6, HlsUnit)
                  ELSE m1

\* colorsys.hls_to_rgb: both the argument and the result in units of 1/HlsUnit
hls_to_rgb01(hls) ==
    LET h == hls[1]
        l == hls[2]
        s == hls[3]
        m2 == IF 2 * l <= HlsUnit
              THEN RoundDiv(l * (HlsUnit + s), HlsUnit)
              ELSE l + s - RoundDiv(l * s, HlsUnit)
        m1 == 2 * l - m2
    IN  IF s = 0
        THEN << l, l, l >>
        ELSE << HlsV(m1, m2, h + HlsUnit \div 3),
                HlsV(m1, m2, h),
                HlsV(m1, m2, h - HlsUnit \div 3) >>

\* Mutation of hue_delta_signed: the long arc is not folded back.
hue_delta_signed_LongArc(h1, h2) == (h1 - h2) % HlsUnit

hue_delta_signed(h1, h2) ==
    LET d == (h1 - h2) % HlsUnit
    IN  IF 2 * d > HlsUnit THEN d - HlsUnit ELSE d

\* Mutation of MapHls: the hue of the source is kept.
MapHls_KeepSourceHue(src, base, tgt) ==
    rgb01_to_hex(
        hls_to_rgb01(<< src[1],
                        clamp(tgt[2] + (src[2] - base[2]), 0, HlsUnit),
                        IF 100 * base[3] > 2 * HlsUnit
                        THEN clamp(RoundDiv(tgt[3] * src[3], base[3]), 0, HlsUnit)
                        ELSE clamp(src[3], 0, HlsUnit) >>),
        HlsUnit)

\* map_family_color, once the three colours are converted to HLS
MapHls(src, base, tgt) ==
    rgb01_to_hex(
        hls_to_rgb01(<< IF 100 * src[3] > 5 * HlsUnit /\ 100 * base[3] > 5 * HlsUnit
                        THEN (tgt[1] + hue_delta_signed(src[1], base[1])) % HlsUnit
                        ELSE tgt[1],
                        clamp(tgt[2] + (src[2] - base[2]), 0, HlsUnit),
                        IF 100 * base[3] > 2 * HlsUnit
                        THEN clamp(RoundDiv(tgt[3] * src[3], base[3]), 0, HlsUnit)
                        ELSE clamp(src[3], 0, HlsUnit) >>),
        HlsUnit)

map_family_color(hx, target_hex) ==
    MapHls(rgb01_to_hls(hex_to_rgb01(hx)),
           rgb01_to_hls(hex_to_rgb01(XFWM4_MARKER_HEX)),
           rgb01_to_hls(hex_to_rgb01(target_hex)))

\* ------------------------------------------------------------------------
\* Files of a directory tree, and the marker-family detector
\* ------------------------------------------------------------------------

\* A tree is a function from relative paths to file contents; a path is
\* the sequence of its parts, each a string.

\* p.name
PathName(p) == p[Len(p)]

\* str < str, by code points
RECURSIVE StrLess(_, _)
StrLess(a, b) ==
    IF b = << >> THEN FALSE
    ELSE IF a = << >> THEN TRUE
    ELSE IF a[1] # b[1] THEN Code(a[1]) < Code(b[1])
    ELSE StrLess(Tail(a), Tail(b))

\* Path < Path: the parts are compared in turn
RECURSIVE PathLess(_, _)
PathLess(p, q) ==
    IF q = << >> THEN FALSE
    ELSE IF p = << >> THEN TRUE
    ELSE IF p[1] # q[1] THEN StrLess(p[1], q[1])
    ELSE PathLess(Tail(p), Tail(q))

\* sorted(paths)
RECURSIVE SortedPaths(_)
SortedPaths(paths) ==
    IF paths = {} THEN << >>
    ELSE LET first == CHOOSE p \in paths : \A q \in paths \ {p} : PathLess(p, q)
         IN  << first >> \o SortedPaths(paths \ {first})

\* fnmatch of the name against "*" followed by the suffix
EndsWith(name, suffix) ==
    /\ Len(name) >= Len(suffix)
    /\ SubSeq(name, Len(name) - Len(suffix) + 1, Len(name)) = suffix

XpmSuffix == << ".", "x", "p", "m" >>
PngSuffix == << ".", "p", "n", "g" >>

\* An entry of the theme root: absent, a regular file, or a folder with
\* its tree of files.
NoEntry == [kind |-> "absent"]
IsFile == [kind |-> "file"]
Dir(tree) == [kind |-> "dir", files |-> tree]

\* folder.rglob("*.xpm"), sorted; nothing when the folder does not exist
list_xpm_files(folder) ==
    IF folder.kind # "dir" THEN << >>
    ELSE SortedPaths({p \in DOMAIN folder.files : EndsWith(PathName(p), XpmSuffix)})

list_png_files(folder) ==
    IF folder.kind # "dir" THEN << >>
    ELSE SortedPaths({p \in DOMAIN folder.files : EndsWith(PathName(p), PngSuffix)})

\* re.sub(r"-.*$", "", p.name).lower()
filename_prefix(p) ==
    LET name == PathName(p)
        dash == FindLiteral(name, << "-" >>)
    IN  LowerStr(IF dash = 0 THEN name ELSE SubSeq(name, 1, dash - 1))

\* p.stem: the name without its last suffix
PathStem(p) ==
    LET name == PathName(p)
        dots == {i \in 2..Len(name) : name[i] = "."}
    IN  IF dots = {} \/ Max(dots) = Len(name) THEN name
        ELSE SubSeq(name, 1, Max(dots) - 1)

\* family[hx] = d on a dict kept as the sequence of its items in insertion order
DictSet(items, hx, d) ==
    IF \E n \in 1..Len(items) : items[n][1] = hx
    THEN AsSeq([n \in 1..Len(items) |-> IF items[n][1] = hx THEN << hx, d >> ELSE items[n]])
    ELSE Append(items, << hx, d >>)

\* family.get(hx, 9.0); no distance of two colours reaches 9.0
DictGet(items, hx, default) ==
    IF \E n \in 1..Len(items) : items[n][1] = hx
    THEN items[CHOOSE n \in 1..Len(items) : items[n][1] = hx][2]
    ELSE default

FarAway == 9 * ByteMax * ByteMax

\* the inner loop of build_marker_family_colors, over the palette of one file
RECURSIVE FamilyOfPalette(_, _, _)
FamilyOfPalette(palette, n, family) ==
    IF n > Len(palette) THEN family
    ELSE LET hx == palette[n][2]
             d == rgb_distance(hex_to_rgb01(hx), hex_to_rgb01(XFWM4_MARKER_HEX))
         IN  IF hx = XFWM4_MARKER_HEX
             THEN FamilyOfPalette(palette, n + 1, DictSet(family, hx, 0))
             ELSE IF WithinThreshold(d)
                  THEN FamilyOfPalette(palette, n + 1,
                           DictSet(family, hx, Min({DictGet(family, hx, FarAway), d})))
                  ELSE FamilyOfPalette(palette, n + 1, family)

\* Mutation of FamilyOfFiles: the button files are scanned too.
RECURSIVE FamilyOfFiles_NoSkip(_, _, _, _, _)
FamilyOfFiles_NoSkip(xpm_files, n, tint_buttons, tree, family) ==
    IF n > Len(xpm_files) THEN family
    ELSE FamilyOfFiles_NoSkip(xpm_files, n + 1, tint_buttons, tree,
             FamilyOfPalette(parse_palette_lines(read_text(tree[xpm_files[n]])),
                             1, family))

\* the outer loop, over the files
RECURSIVE FamilyOfFiles(_, _, _, _, _)
FamilyOfFiles(xpm_files, n, tint_buttons, tree, family) ==
    IF n > Len(xpm_files) THEN family
    ELSE IF (~tint_buttons) /\ filename_prefix(xpm_files[n]) \in XFWM4_BUTTON_PREFIXES
         THEN FamilyOfFiles(xpm_files, n + 1, tint_buttons, tree, family)
         ELSE FamilyOfFiles(xpm_files, n + 1, tint_buttons, tree,
                  FamilyOfPalette(parse_palette_lines(read_text(tree[xpm_files[n]])),
                                  1, family))

\* Mutation of SortedByValue: equal values are put in reverse order.
RECURSIVE SortedByValue_Unstable(_)
SortedByValue_Unstable(items) ==
    IF items = << >> THEN << >>
    ELSE LET rest == SortedByValue_Unstable(SubSeq(items, 1, Len(items) - 1))
             last == items[Len(items)]
             before == SelectSeq(rest, LAMBDA e : e[2] < last[2])
             after == SelectSeq(rest, LAMBDA e : e[2] >= last[2])
         IN  before \o << last >> \o after

\* sorted(items, key=lambda kv: kv[1]): stable
RECURSIVE SortedByValue(_)
SortedByValue(items) ==
    IF items = << >> THEN << >>
    ELSE LET rest == SortedByValue(SubSeq(items, 1, Len(items) - 1))
             last == items[Len(items)]
             before == SelectSeq(rest, LAMBDA e : e[2] <= last[2])
             after == SelectSeq(rest, LAMBDA e : e[2] > last[2])
         IN  before \o << last >> \o after

\* the files are read from tree
build_marker_family_colors(xpm_files, tint_buttons, tree) ==
    LET items == SortedByValue(FamilyOfFiles(xpm_files, 1, tint_buttons, tree, << >>))
    IN  AsSeq([n \in 1..Len(items) |-> items[n][1]])

\* ------------------------------------------------------------------------
\* XFWM4 generation: template -> xfwm4, recolouring the marker family
\* ------------------------------------------------------------------------

\* The theme root is the record fs of its entries: templates (candidate
\* folder name -> entry), xfwm4 (entry) and backups (the xfwm4-backups
\* entry, whose files map a time stamp to the tree copied under it).

TemplateCandidates == << "xfwm4-template", "xfwm4_template", "xfwm4.template", "xfwm4-tpl" >>

NoTemplate == "<None>"

\* the name of the first candidate that exists and is a folder, or NoTemplate
find_xfwm4_template(tpls) ==
    LET found == {i \in 1..Len(TemplateCandidates) :
                     tpls[TemplateCandidates[i]].kind = "dir"}
    IN  IF found = {} THEN NoTemplate ELSE TemplateCandidates[Min(found)]

\* stamp is time.strftime("%Y-%m-%d_%H-%M-%S"): the clock in whole seconds.
\* ensure_dir creates xfwm4-backups; shutil.copytree raises FileExistsError
\* when the destination exists.
backup_xfwm4(fs, stamp) ==
    IF fs.xfwm4.kind # "dir"
    THEN [raised |-> FALSE, backups |-> fs.backups, name |-> NoTemplate]
    ELSE LET root == IF fs.backups.kind = "dir" THEN fs.backups.files ELSE << >>
         IN  IF stamp \in DOMAIN root
             THEN [raised |-> TRUE, backups |-> Dir(root), name |-> NoTemplate]
             ELSE [raised |-> FALSE,
                   backups |-> Dir((stamp :> fs.xfwm4.files) @@ root),
                   name |-> "xfwm4_stamp"]

\* Mutation of restore_from_template: the template is copied over the
\* existing directory, which is not removed first.
restore_from_template_Merge(template_dir, xfwm4_dir) ==
    IF xfwm4_dir.kind = "dir"
    THEN Dir(template_dir.files @@ xfwm4_dir.files)
    ELSE Dir(template_dir.files)

\* shutil.rmtree(xfwm4_dir) if it exists, then shutil.copytree(template_dir, xfwm4_dir)
restore_from_template(template_dir, xfwm4_dir) == Dir(template_dir.files)

\* one round of the loop over the XPM files: the counters and the tree after
\* recolor_xpm_palette_with_mapping returned r for the file p
Recolored(acc, p, r) ==
    IF r.changed > 0
    THEN [tree |-> [acc.tree EXCEPT ![p] = r.bytes],
          files_modified |-> acc.files_modified + 1,
          entries_modified |-> acc.entries_modified + r.changed,
          rewritten |-> acc.rewritten \cup {p}]
    ELSE acc

\* Mutation of RecolorFiles: the button files are rewritten too.
RECURSIVE RecolorFiles_NoSkip(_, _, _, _, _)
RecolorFiles_NoSkip(xpm_files, n, tint_buttons, mapping, acc) ==
    IF n > Len(xpm_files)
    THEN acc
    ELSE RecolorFiles_NoSkip(xpm_files, n + 1, tint_buttons, mapping,
             Recolored(acc, xpm_files[n],
                 recolor_xpm_palette_with_mapping(acc.tree[xpm_files[n]], mapping)))

\* the loop of generate_xfwm4_from_template_sentinel over the XPM files
RECURSIVE RecolorFiles(_, _, _, _, _)
RecolorFiles(xpm_files, n, tint_buttons, mapping, acc) ==
    IF n > Len(xpm_files)
    THEN acc
    ELSE IF (~tint_buttons) /\ filename_prefix(xpm_files[n]) \in XFWM4_BUTTON_PREFIXES
    THEN RecolorFiles(xpm_files, n + 1, tint_buttons, mapping, acc)
    ELSE RecolorFiles(xpm_files, n + 1, tint_buttons, mapping,
             Recolored(acc, xpm_files[n],
                 recolor_xpm_palette_with_mapping(acc.tree[xpm_files[n]], mapping)))

\* Mutation of remove_png_duplicates: every PNG file is unlinked.
remove_png_duplicates_All(folder) ==
    LET pngs == list_png_files(folder)
        removed == {pngs[n] : n \in 1..Len(pngs)}
    IN  [tree |-> AsFcn(folder.files, (DOMAIN folder.files) \ removed),
         removed |-> removed]

\* [tree |-> the folder afterwards, removed |-> the PNG files unlinked]
remove_png_duplicates(folder) ==
    LET pngs == list_png_files(folder)
        xpms == list_xpm_files(folder)
        xpm_stems == {PathStem(xpms[n]) : n \in 1..Len(xpms)}
        removed == {pngs[n] : n \in {k \in 1..Len(pngs) : PathStem(pngs[k]) \in xpm_stems}}
    IN  [tree |-> AsFcn(folder.files, (DOMAIN folder.files) \ removed),
         removed |-> removed]

NoDetails == [family |-> << >>, mapping |-> << >>, rewritten |-> {}, removed |-> {}]

\* a return of generate_xfwm4_from_template_sentinel with nothing modified
Unmodified(fs, template, msg, backup_msg) ==
    [raised |-> FALSE, fs |-> fs, template |-> template,
     ret |-> [msg |-> msg, backup |-> backup_msg, files_modified |-> 0,
              entries_modified |-> 0],
     details |-> NoDetails]

\* the final return, after the PNG duplicates are removed or kept (dup)
GenerateReport(fs, template, backup_msg, family, mapping, rec, dup) ==
    [raised |-> FALSE,
     fs |-> [fs EXCEPT !.xfwm4 = Dir(dup.tree)],
     template |-> template,
     ret |-> [msg |-> "modified", backup |-> backup_msg,
              files_modified |-> rec.files_modified,
              entries_modified |-> rec.entries_modified],
     details |-> [family |-> family, mapping |-> mapping,
                  rewritten |-> rec.rewritten, removed |-> dup.removed]]

\* from the loop over the XPM files on (rec is its outcome)
GenerateRecolored(fs, template, backup_msg, family, mapping, rec, drop_png_duplicates) ==
    GenerateReport(fs, template, backup_msg, family, mapping, rec,
                   IF drop_png_duplicates
                   THEN remove_png_duplicates(Dir(rec.tree))
                   ELSE [tree |-> rec.tree, removed |-> {}])

\* mapping = {hx: map_family_color(hx, target_hex) for hx in family}
FamilyMapping(family, target_hex) ==
    AsFcn([hx \in {family[n] : n \in 1..Len(family)} |-> map_family_color(hx, target_hex)],
          {family[n] : n \in 1..Len(family)})

\* from the mapping on
GenerateMapped(fs, template, backup_msg, xpm_files, family, mapping, tint_buttons, drop_png_duplicates) ==
    GenerateRecolored(fs, template, backup_msg, family, mapping,
                      RecolorFiles(xpm_files, 1, tint_buttons, mapping,
                                   [tree |-> fs.xfwm4.files, files_modified |-> 0,
                                    entries_modified |-> 0, rewritten |-> {}]),
                      drop_png_duplicates)

\* Mutation of GenerateWithFamily: with an empty family the PNG duplicates
\* are still removed.
GenerateWithFamily_DropAnyway(fs, template, backup_msg, xpm_files, family, target_hex, tint_buttons, drop_png_duplicates) ==
    IF family = << >>
    THEN Unmodified(IF drop_png_duplicates
                    THEN [fs EXCEPT !.xfwm4 = Dir(remove_png_duplicates(fs.xfwm4).tree)]
                    ELSE fs,
                    template, "marker family empty", backup_msg)
    ELSE GenerateMapped(fs, template, backup_msg, xpm_files, family,
                        FamilyMapping(family, target_hex), tint_buttons,
                        drop_png_duplicates)

\* from the family on
GenerateWithFamily(fs, template, backup_msg, xpm_files, family, target_hex, tint_buttons, drop_png_duplicates) ==
    IF family = << >>
    THEN Unmodified(fs, template, "marker family empty", backup_msg)
    ELSE GenerateMapped(fs, template, backup_msg, xpm_files, family,
                        FamilyMapping(family, target_hex), tint_buttons,
                        drop_png_duplicates)

\* from the listing of the XPM files of the restored working tree on
GenerateListed(fs, template, backup_msg, xpm_files, target_hex, tint_buttons, drop_png_duplicates) ==
    IF xpm_files = << >>
    THEN Unmodified(fs, template, "template copied, but no XPM files found", backup_msg)
    ELSE GenerateWithFamily(fs, template, backup_msg, xpm_files,
                            build_marker_family_colors(xpm_files, tint_buttons,
                                                       fs.xfwm4.files),
                            target_hex, tint_buttons, drop_png_duplicates)

\* from restore_from_template on (b is the outcome of the backup)
GenerateBackedUp(fs, template, b, target_hex, tint_buttons, drop_png_duplicates) ==
    IF b.raised
    THEN [raised |-> TRUE, fs |-> [fs EXCEPT !.backups = b.backups],
          template |-> template,
          ret |-> [msg |-> "FileExistsError", backup |-> "", files_modified |-> 0,
                   entries_modified |-> 0],
          details |-> NoDetails]
    ELSE GenerateListed([fs EXCEPT !.backups = b.backups,
                                   !.xfwm4 = restore_from_template(fs.templates[template],
                                                                   fs.xfwm4)],
                        template,
                        IF b.name = NoTemplate THEN "skipped" ELSE b.name,
                        list_xpm_files(restore_from_template(fs.templates[template],
                                                             fs.xfwm4)),
                        target_hex, tint_buttons, drop_png_duplicates)

\* generate_xfwm4_from_template_sentinel from the backup on, for the template
\* folder found
GenerateFromTemplate(fs, template, target_hex, backup_each_apply, tint_buttons, drop_png_duplicates, stamp) ==
    GenerateBackedUp(fs, template,
                     IF backup_each_apply /\ fs.xfwm4.kind = "dir"
                     THEN backup_xfwm4(fs, stamp)
                     ELSE [raised |-> FALSE, backups |-> fs.backups, name |-> "OFF"],
                     target_hex, tint_buttons, drop_png_duplicates)

\* Mutation of generate_xfwm4_from_template_sentinel: the backup is made
\* before the template folder is looked for.
generate_xfwm4_from_template_sentinel_BackupFirst(fs, target_hex, backup_each_apply, tint_buttons, drop_png_duplicates, stamp) ==
    LET template == find_xfwm4_template(fs.templates)
        b == IF backup_each_apply /\ fs.xfwm4.kind = "dir"
             THEN backup_xfwm4(fs, stamp)
             ELSE [raised |-> FALSE, backups |-> fs.backups, name |-> "OFF"]
    IN  IF template = NoTemplate
        THEN [raised |-> FALSE, fs |-> [fs EXCEPT !.backups = b.backups],
              template |-> NoTemplate,
              ret |-> [msg |-> "no template folder found", backup |-> "",
                       files_modified |-> 0, entries_modified |-> 0],
              details |-> NoDetails]
        ELSE GenerateFromTemplate(fs, template, target_hex, backup_each_apply,
                                  tint_buttons, drop_png_duplicates, stamp)

generate_xfwm4_from_template_sentinel(fs, target_hex, backup_each_apply, tint_buttons, drop_png_duplicates, stamp) ==
    LET template == find_xfwm4_template(fs.templates)
    IN  IF template = NoTemplate
        THEN [raised |-> FALSE, fs |-> fs, template |-> NoTemplate,
              ret |-> [msg |-> "no template folder found", backup |-> "",
                       files_modified |-> 0, entries_modified |-> 0],
              details |-> NoDetails]
        ELSE GenerateFromTemplate(fs, template, target_hex, backup_each_apply,
                                  tint_buttons, drop_png_duplicates, stamp)

\* ------------------------------------------------------------------------
\* Specification of compute_final_color_and_opacity
\* ------------------------------------------------------------------------

\* largest intensity passed (the slider gives 0..100; the function clamps)
MaxIntensity == 101

BlendBases ==
    { XFWM4_MARKER_HEX,
      << "#", "c", "e", "4", "4", "4", "4" >>,
      << "#", "C", "E", "4", "4", "4", "4" >>,
      << "#", "f", "f", "f", "f", "f", "f" >>,
      << "9", "3", "9", "3", "9", "3" >>,
      << "\t", "#", "7", "2", "4", "c", "4", "c", " " >>,
      << "#", "8", "b", "c", "4", "8", "3" >>,
      << "#", "1", "2", "3", "4", "5" >>,
      << "#", "e", "2", "d", "a", "9", "d", "f", "f" >>,
      NoneValue }

InitIdleFs ==
    /\ ui = Idle
    /\ templates = Idle
    /\ xfwm4 = Idle
    /\ backups = Idle
    /\ now = 0
    /\ call = Idle

InitBlend ==
    /\ InitIdleFs
    /\ fnIO = Idle
    /\ rcIO = Idle
    /\ famIO = Idle
    /\ \E b \in BlendBases, e \in BOOLEAN, i \in (0 - 1)..MaxIntensity :
          blendIO = [op |-> "args", base |-> b, enable |-> e, intensity |-> i,
                     result |-> << >>]

ComputeFinal ==
    /\ blendIO.op = "args"
    /\ blendIO' = [blendIO EXCEPT
          !.op = "returned",
          !.result = compute_final_color_and_opacity(blendIO.base, blendIO.enable,
                                                     blendIO.intensity)]
    /\ UNCHANGED <<templates, xfwm4, backups, now, call, rcIO, famIO, fnIO, ui>>

NextBlend == ComputeFinal

SpecBlend == InitBlend /\ [][NextBlend]_vars

BlendReturned(i) ==
    /\ blendIO.op = "returned"
    /\ blendIO.intensity = i
    /\ normalize_hex(blendIO.base) # ValueError

\* C1 (as stated): for every valid base colour and both values of the
\* transparency flag, intensity 100 returns the normalized base colour
\* together with opacity 1.0.
C1_FullOpacityRegardlessOfFlag ==
    BlendReturned(100) =>
        blendIO.result = << normalize_hex(blendIO.base), PerMille >>

\* C1 (amended): at intensity 100 the returned colour is the normalized base
\* colour for both values of the flag; the opacity is 1.0 with transparency
\* disabled and 0.90 with transparency enabled.
C1_BaseColourAtFullIntensity ==
    BlendReturned(100) =>
        /\ blendIO.result[1] = normalize_hex(blendIO.base)
        /\ blendIO.result[2] = IF blendIO.enable THEN 900 ELSE PerMille

C1_Witness ==
    /\ BlendReturned(100)
    /\ blendIO.enable
    /\ blendIO.base # normalize_hex(blendIO.base)
    /\ blendIO.result[2] = 900

\* the valid base colours that were passed with the transparency flag e
BlendReturnedWith(e) ==
    /\ blendIO.op = "returned"
    /\ blendIO.enable = e
    /\ normalize_hex(blendIO.base) # ValueError

\* the opacity returned for the base colour of the call at intensity j, with
\* transparency enabled
OpacityAt(j) == compute_final_color_and_opacity(blendIO.base, TRUE, j)[2]

\* C15: with transparency enabled the opacity is non-decreasing in the
\* intensity: for all integer intensities i <= j (values outside 0..100 are
\* clamped) opacity(i) <= opacity(j), and the opacity is 0.10 at intensity 0.
C15_OpacityNonDecreasing ==
    BlendReturnedWith(TRUE) =>
        /\ \A j \in blendIO.intensity..MaxIntensity : blendIO.result[2] <= OpacityAt(j)
        /\ blendIO.intensity = 0 => blendIO.result[2] = 100

C15_Witness ==
    /\ BlendReturnedWith(TRUE)
    /\ blendIO.intensity = 40
    /\ blendIO.result[2] = 420
    /\ OpacityAt(41) = 428
    /\ OpacityAt(0 - 1) = 100

\* C16: with transparency disabled the opacity is 1.0 for every intensity,
\* the colour is the base colour at intensity 100 and white (#ffffff) at
\* intensity 0, for every valid base colour.
C16_OpaqueWithoutTransparency ==
    BlendReturnedWith(FALSE) =>
        /\ blendIO.result[2] = PerMille
        /\ blendIO.intensity = 100 => blendIO.result[1] = normalize_hex(blendIO.base)
        /\ blendIO.intensity = 0 =>
              blendIO.result[1] = << "#", "f", "f", "f", "f", "f", "f" >>

C16_Witness ==
    /\ BlendReturnedWith(FALSE)
    /\ blendIO.intensity = 0
    /\ blendIO.base = << "#", "C", "E", "4", "4", "4", "4" >>
    /\ blendIO.result = << << "#", "f", "f", "f", "f", "f", "f" >>, PerMille >>

\* ------------------------------------------------------------------------
\* Specification of recolor_xpm_palette_with_mapping
\* ------------------------------------------------------------------------

\* largest number of lines of a file
MaxLines == 2

ColTwilight == << "#", "3", "9", "6", "c", "b", "6" >>
ColFrame == << "#", "d", "8", "c", "f", "8", "a" >>
ColFrameMapped == << "#", "3", "6", "6", "0", "9", "c" >>
ColBlack == << "#", "0", "0", "0", "0", "0", "0" >>

\* lines of an XPM file, without their terminator
LineMarker == << ".", " ", "c", " " >> \o XFWM4_MARKER_HEX
LineMarkerUpper == << ".", " ", "c", " ", "#", "E", "2", "D", "A", "9", "D" >>
LineFrame == << "+", "\t", "c", " " >> \o ColFrame \o << " " >>
LineBlack == << "@", " ", "c", " " >> \o ColBlack
LineNone == << " ", " ", "c", " " >> \o NoneWord
LineLongToken == << ".", " ", "c", " " >> \o XFWM4_MARKER_HEX \o << "f", "f" >>
LinePixels == << ".", ".", "+", "@" >>

LinePool == {LineMarker, LineMarkerUpper, LineFrame, LineBlack, LineNone,
             LineLongToken, LinePixels}

LF == << "\n" >>
CRLF == << "\r", "\n" >>
CR == << "\r" >>
Terminators == {LF, CRLF, CR}

\* the files of exactly n lines, each line with its terminator
RECURSIVE FilesOfLen(_)
FilesOfLen(n) ==
    IF n = 0 THEN {<< >>}
    ELSE {f \o l \o t : f \in FilesOfLen(n - 1), l \in LinePool, t \in Terminators}

\* the files of at most n lines; the last line may lack its terminator
XpmFiles(n) ==
    UNION {FilesOfLen(k) : k \in 0..n}
        \cup UNION {{f \o l : f \in FilesOfLen(k), l \in LinePool} : k \in 0..(n - 1)}

\* dict literals: old colour -> new colour
MappingTwilight == (XFWM4_MARKER_HEX :> ColTwilight) @@ (ColFrame :> ColFrameMapped)
MappingIdentity == (XFWM4_MARKER_HEX :> XFWM4_MARKER_HEX)
MappingChain == (XFWM4_MARKER_HEX :> ColFrame) @@ (ColFrame :> ColBlack)
RcMappings == {MappingTwilight, MappingIdentity, MappingChain}

InitRecolor ==
    /\ InitIdleFs
    /\ fnIO = Idle
    /\ blendIO = Idle
    /\ famIO = Idle
    /\ \E f \in XpmFiles(MaxLines), m \in RcMappings :
          rcIO = [op |-> "args", bytes |-> f, mapping |-> m, changed |-> 0, out |-> f,
                  id_changed |-> 0, id_out |-> f]

Recolor ==
    /\ rcIO.op = "args"
    /\ LET r == recolor_xpm_palette_with_mapping(rcIO.bytes, rcIO.mapping)
       IN  rcIO' = [rcIO EXCEPT !.op = "returned", !.changed = r.changed, !.out = r.bytes]
    /\ UNCHANGED <<templates, xfwm4, backups, now, call, blendIO, famIO, fnIO, ui>>

\* the mapping of every key to itself
IdentityMapping(mapping) == AsFcn([k \in DOMAIN mapping |-> k], DOMAIN mapping)

\* the file written is rewritten with the identity mapping on the same keys
RecolorIdentity ==
    /\ rcIO.op = "returned"
    /\ \E r \in {recolor_xpm_palette_with_mapping(rcIO.out, IdentityMapping(rcIO.mapping))} :
           rcIO' = [rcIO EXCEPT !.op = "identity", !.id_changed = r.changed,
                                !.id_out = r.bytes]
    /\ UNCHANGED <<templates, xfwm4, backups, now, call, blendIO, famIO, fnIO, ui>>

NextRecolor == Recolor \/ RecolorIdentity

SpecRecolor == InitRecolor /\ [][NextRecolor]_vars

\* The lines of a file as the bytes hold them: body and terminator (LF,
\* CRLF, CR, or none for an unterminated last line).
RECURSIVE RawFrom(_, _, _)
RawFrom(bytes, i, cur) ==
    IF i > Len(bytes)
    THEN IF cur = << >> THEN << >> ELSE << [body |-> cur, term |-> << >>] >>
    ELSE IF bytes[i] = "\r" /\ i < Len(bytes) /\ bytes[i + 1] = "\n"
         THEN << [body |-> cur, term |-> CRLF] >> \o RawFrom(bytes, i + 2, << >>)
         ELSE IF bytes[i] \in {"\n", "\r"}
              THEN << [body |-> cur, term |-> << bytes[i] >>] >>
                       \o RawFrom(bytes, i + 1, << >>)
              ELSE RawFrom(bytes, i + 1, Append(cur, bytes[i]))

RawLines(bytes) == RawFrom(bytes, 1, << >>)

\* the palette entries of the file whose colour the mapping replaces by another
MappedEntries(bytes, mapping) ==
    SelectSeq(parse_palette_lines(read_text(bytes)), LAMBDA e :
        e[2] \in DOMAIN mapping /\ mapping[e[2]] # e[2])

InSeq(x, seq) == \E n \in 1..Len(seq) : seq[n] = x

\* C2: recolor_xpm_palette_with_mapping rewrites every palette line whose
\* colour is a mapping key with a different replacement, whatever the letter
\* case of its hex digits: afterwards the line carries the replacement and
\* not the mapped colour, and the returned count is the number of such lines.
C2_EveryMappedLineRewritten ==
    rcIO.op = "returned" =>
        LET mapped == MappedEntries(rcIO.bytes, rcIO.mapping)
            after == parse_palette_lines(read_text(rcIO.out))
        IN  /\ \A n \in 1..Len(mapped) :
                  InSeq(<< mapped[n][1], rcIO.mapping[mapped[n][2]] >>, after)
            /\ rcIO.changed = Len(mapped)

\* the body differs from the original at most inside the colour token of a
\* palette line whose colour is a key of the mapping
OnlyTokenDiffers(old, new, mapping) ==
    \/ new = old
    \/ LET m == HEX_RE_search(old)
       IN  /\ m.group # NoMatch
           /\ LowerStr(m.group) \in DOMAIN mapping
           /\ Len(new) = Len(old)
           /\ \A i \in 1..Len(old) : new[i] # old[i] => i \in m.tok..(m.tok + 6)

\* C3: the file written differs from the file read only in the colour tokens
\* of palette lines whose colour is a mapping key: every other line is
\* byte-identical including its terminator (LF, CRLF or CR), the number of
\* lines is unchanged, and the file ends with a terminator exactly when the
\* input did.
C3_OnlyColourTokensChange ==
    rcIO.op = "returned" =>
        LET old == RawLines(rcIO.bytes)
            new == RawLines(rcIO.out)
        IN  /\ Len(new) = Len(old)
            /\ \A i \in 1..Len(old) :
                  /\ i <= Len(new)
                  /\ new[i].term = old[i].term
                  /\ OnlyTokenDiffers(old[i].body, new[i].body, rcIO.mapping)

\* the colour token of the line goes on with a further hex digit
TokenTruncated(line) ==
    LET m == HEX_RE_search(line)
    IN  /\ m.group # NoMatch
        /\ m.group # NoneWord
        /\ m.tok + 7 <= Len(line)
        /\ line[m.tok + 7] \in HexDigits

\* C7: every colour returned by parse_palette_lines is the complete colour
\* token of its line; a token of more than 6 hex digits is not accepted by
\* truncation, so its line is neither parsed as a palette entry nor rewritten.
C7_NoTruncatedTokenAccepted ==
    rcIO.op = "returned" =>
        LET old == RawLines(rcIO.bytes)
            new == RawLines(rcIO.out)
            parsed == parse_palette_lines(read_text(rcIO.bytes))
        IN  \A i \in 1..Len(old) :
                TokenTruncated(old[i].body) =>
                    /\ \A n \in 1..Len(parsed) : parsed[n][1] # i - 1
                    /\ i <= Len(new) /\ new[i].body = old[i].body

\* C17: rewriting a file with a mapping and then rewriting the result with
\* the identity mapping on the same keys leaves the file byte-identical to
\* the result of the first rewrite and returns a change count of 0.
C17_IdentityRewriteChangesNothing ==
    rcIO.op = "identity" =>
        /\ rcIO.id_changed = 0
        /\ rcIO.id_out = rcIO.out

\* the first rewrite changed the file, which still holds a key of the mapping
C17_Witness ==
    /\ rcIO.op = "identity"
    /\ rcIO.changed > 0
    /\ rcIO.out # rcIO.bytes
    /\ \E n \in 1..Len(parse_palette_lines(read_text(rcIO.out))) :
          parse_palette_lines(read_text(rcIO.out))[n][2] \in DOMAIN rcIO.mapping

\* the lines of a file as the rewrite sees them
TextLines(bytes) == splitlines(read_text(bytes))

\* line i of the input is a palette line whose colour token is the key hx
\* as written (the keys of a mapping are lower-case colours)
HeldKey(i, hx) ==
    /\ hx \in DOMAIN rcIO.mapping
    /\ rcIO.mapping[hx] # hx
    /\ i \in 1..Len(TextLines(rcIO.bytes))
    /\ HEX_RE_search(TextLines(rcIO.bytes)[i]).group = hx

\* C24: the mapping is applied as one simultaneous substitution. A palette
\* line whose colour token is a key ends with that token replaced by
\* mapping[key] as read in the input file, also when the replacement is a key
\* itself (a -> b, b -> c: the line that held a ends as b, not as c); no
\* line is rewritten twice, so the returned count is the number of lines
\* that differ.
C24_SimultaneousSubstitution ==
    rcIO.op = "returned" =>
        /\ Len(TextLines(rcIO.out)) = Len(TextLines(rcIO.bytes))
        /\ \A hx \in DOMAIN rcIO.mapping, i \in 1..Len(TextLines(rcIO.bytes)) :
              HeldKey(i, hx) =>
                  TextLines(rcIO.out)[i] =
                      ReplaceAt(TextLines(rcIO.bytes)[i],
                                HEX_RE_search(TextLines(rcIO.bytes)[i]).tok,
                                hx, rcIO.mapping[hx])
        /\ rcIO.changed =
              Cardinality({i \in 1..Len(TextLines(rcIO.bytes)) :
                              TextLines(rcIO.out)[i] # TextLines(rcIO.bytes)[i]})

\* a file with a line that held a and a line that held b, rewritten with
\* a -> b and b -> c
C24_Witness ==
    /\ rcIO.op = "returned"
    /\ rcIO.mapping = MappingChain
    /\ rcIO.changed = 2
    /\ \E i \in 1..Len(TextLines(rcIO.bytes)) :
          /\ HeldKey(i, XFWM4_MARKER_HEX)
          /\ HEX_RE_search(TextLines(rcIO.out)[i]).group = ColFrame
    /\ \E i \in 1..Len(TextLines(rcIO.bytes)) :
          /\ HeldKey(i, ColFrame)
          /\ HEX_RE_search(TextLines(rcIO.out)[i]).group = ColBlack

\* ------------------------------------------------------------------------
\* Specification of build_marker_family_colors
\* ------------------------------------------------------------------------

\* largest number of lines of a scanned file
MaxFamLines == 2

\* two colours at the same distance from the marker
ColTieA == << "#", "e", "4", "d", "a", "9", "d" >>
ColTieB == << "#", "e", "2", "d", "c", "9", "d" >>

LineTieA == << "a", " ", "c", " " >> \o ColTieA
LineTieB == << "b", " ", "c", " " >> \o ColTieB

FamLinePool == {LineMarker, LineFrame, LineTieA, LineTieB, LineBlack}

RECURSIVE FamFilesOfLen(_)
FamFilesOfLen(n) ==
    IF n = 0 THEN {<< >>}
    ELSE {f \o l \o LF : f \in FamFilesOfLen(n - 1), l \in FamLinePool}

FamFiles == UNION {FamFilesOfLen(k) : k \in 0..MaxFamLines}

PathCloseXpm == << << "c", "l", "o", "s", "e", "-", "a", ".", "x", "p", "m" >> >>
PathTitleXpm == << << "t", "i", "t", "l", "e", "-", "a", ".", "x", "p", "m" >> >>

\* the folders that hold a subset of the two files
FamTrees ==
    {(PathCloseXpm :> a) @@ (PathTitleXpm :> b) : a \in FamFiles, b \in FamFiles}
        \cup {(PathCloseXpm :> a) : a \in FamFiles}
        \cup {(PathTitleXpm :> b) : b \in FamFiles}
        \cup {<< >>}

InitFamily ==
    /\ InitIdleFs
    /\ fnIO = Idle
    /\ blendIO = Idle
    /\ rcIO = Idle
    /\ \E t \in FamTrees, tint \in BOOLEAN :
          famIO = [op |-> "args", tree |-> t, tint_buttons |-> tint, family |-> << >>]

BuildFamily ==
    /\ famIO.op = "args"
    /\ famIO' = [famIO EXCEPT
          !.op = "returned",
          !.family = build_marker_family_colors(list_xpm_files(Dir(famIO.tree)),
                                                famIO.tint_buttons, famIO.tree)]
    /\ UNCHANGED <<templates, xfwm4, backups, now, call, blendIO, rcIO, fnIO, ui>>

NextFamily == BuildFamily

SpecFamily == InitFamily /\ [][NextFamily]_vars

\* the files build_marker_family_colors does not skip
Scanned(xpm_files, tint_buttons) ==
    SelectSeq(xpm_files, LAMBDA p :
        tint_buttons \/ filename_prefix(p) \notin XFWM4_BUTTON_PREFIXES)

\* the palette colours of the scanned files, in the order they are met
RECURSIVE Encountered(_, _)
Encountered(files, tree) ==
    IF files = << >> THEN << >>
    ELSE LET pal == parse_palette_lines(read_text(tree[files[1]]))
         IN  AsSeq([n \in 1..Len(pal) |-> pal[n][2]]) \o Encountered(Tail(files), tree)

MarkerDistance(hx) == rgb_distance(hex_to_rgb01(hx), hex_to_rgb01(XFWM4_MARKER_HEX))

FirstIndex(seq, x) == Min({n \in 1..Len(seq) : seq[n] = x})

\* family is the list the claim describes for the colours met
IsMarkerFamilyOf(family, met) ==
    /\ \A n \in 1..Len(family) :
          /\ InSeq(family[n], met)
          /\ WithinThreshold(MarkerDistance(family[n]))
    /\ \A n \in 1..Len(met) :
          WithinThreshold(MarkerDistance(met[n])) => InSeq(met[n], family)
    /\ \A i, j \in 1..Len(family) : i # j => family[i] # family[j]
    /\ \A i, j \in 1..Len(family) : i < j =>
          \/ MarkerDistance(family[i]) < MarkerDistance(family[j])
          \/ /\ MarkerDistance(family[i]) = MarkerDistance(family[j])
             /\ FirstIndex(met, family[i]) < FirstIndex(met, family[j])
    /\ InSeq(XFWM4_MARKER_HEX, met) => family[1] = XFWM4_MARKER_HEX

\* C8: build_marker_family_colors returns exactly the distinct palette
\* colours of the scanned (non-excluded) files whose distance to the marker
\* is at most the threshold, each once: empty when there is none, the marker
\* (distance 0) first when present, in ascending distance with ties in order
\* of first encounter.
C8_FamilyIsNearColoursByDistance ==
    famIO.op = "returned" =>
        IsMarkerFamilyOf(famIO.family,
            Encountered(Scanned(list_xpm_files(Dir(famIO.tree)), famIO.tint_buttons),
                        famIO.tree))

C8_Witness ==
    /\ famIO.op = "returned"
    /\ famIO.family = << XFWM4_MARKER_HEX, ColTieB, ColTieA, ColFrame >>
    /\ Encountered(list_xpm_files(Dir(famIO.tree)), famIO.tree)
          = << ColTieB, ColFrame, ColTieA, XFWM4_MARKER_HEX >>

\* ------------------------------------------------------------------------
\* Specification of the XFWM4 generation on a theme root
\* ------------------------------------------------------------------------

\* largest number of calls of generate_xfwm4_from_template_sentinel
MaxRuns == 2

\* last second of the clock
MaxClock == 1

PngBytes == << "P", "N" >>

XpmMarker == LineMarker \o LF
XpmFrame == LineFrame \o LF
XpmBlack == LineBlack \o LF
XpmButtonShared == LineFrame \o LF \o LineMarker \o LF
XpmFrameShared == LineMarkerUpper \o CRLF \o LineFrame \o CRLF \o LineTieA \o CRLF

PathClosePng == << << "c", "l", "o", "s", "e", "-", "a", ".", "p", "n", "g" >> >>
PathTitlePng == << << "t", "i", "t", "l", "e", "-", "a", ".", "p", "n", "g" >> >>
PathSubTitlePng == << << "h", "i" >>, << "t", "i", "t", "l", "e", "-", "a", ".", "p", "n", "g" >> >>
PathSubMenuXpm == << << "h", "i" >>, << "M", "e", "n", "u", "-", "b", ".", "x", "p", "m" >> >>
PathLogoPng == << << "l", "o", "g", "o", ".", "p", "n", "g" >> >>
PathOldXpm == << << "o", "l", "d", "-", "a", ".", "x", "p", "m" >> >>

\* a button XPM with the marker, a frame XPM with a near colour, PNG files
TplScenario ==
    (PathCloseXpm :> XpmMarker) @@ (PathTitleXpm :> XpmFrame)
        @@ (PathClosePng :> PngBytes) @@ (PathSubTitlePng :> PngBytes)
        @@ (PathLogoPng :> PngBytes)

\* no XPM file
TplNoXpm == (PathLogoPng :> PngBytes)

\* no colour near the marker
TplFar == (PathTitleXpm :> XpmBlack) @@ (PathTitlePng :> PngBytes)

\* button XPM files that share their colours with a frame XPM
TplShared ==
    (PathCloseXpm :> XpmButtonShared) @@ (PathTitleXpm :> XpmFrameShared)
        @@ (PathSubMenuXpm :> XpmFrame) @@ (PathTitlePng :> PngBytes)

TemplateTrees == {TplScenario, TplNoXpm, TplFar, TplShared}

AllAbsent ==
    AsFcn([c \in {TemplateCandidates[i] : i \in 1..Len(TemplateCandidates)} |-> NoEntry],
          {TemplateCandidates[i] : i \in 1..Len(TemplateCandidates)})

TemplateConfigs ==
    {AllAbsent, [AllAbsent EXCEPT ![TemplateCandidates[1]] = IsFile]}
        \cup {[AllAbsent EXCEPT ![TemplateCandidates[1]] = Dir(t)] : t \in TemplateTrees}
        \cup {[AllAbsent EXCEPT ![TemplateCandidates[1]] = IsFile,
                                ![TemplateCandidates[2]] = Dir(TplShared)]}
        \cup {[AllAbsent EXCEPT ![TemplateCandidates[2]] = Dir(TplScenario),
                                ![TemplateCandidates[3]] = Dir(TplFar)]}

\* what an earlier theme left in xfwm4
StaleTree == (PathOldXpm :> XpmMarker) @@ (PathLogoPng :> PngBytes)

Targets == {ColTwilight, XFWM4_MARKER_HEX}

ThemeRoot == [templates |-> templates, xfwm4 |-> xfwm4, backups |-> backups]

Init ==
    /\ fnIO = Idle
    /\ ui = Idle
    /\ blendIO = Idle
    /\ rcIO = Idle
    /\ famIO = Idle
    /\ templates \in TemplateConfigs
    /\ xfwm4 \in {NoEntry, Dir(StaleTree)}
    /\ backups = NoEntry
    /\ now = 0
    /\ call = [op |-> "idle", n |-> 0]

Generate(target_hex, backup_each_apply, tint_buttons, drop_png_duplicates) ==
    /\ call.n < MaxRuns
    /\ \E r \in {generate_xfwm4_from_template_sentinel(ThemeRoot, target_hex,
                    backup_each_apply, tint_buttons, drop_png_duplicates, now)} :
           /\ templates' = r.fs.templates
           /\ xfwm4' = r.fs.xfwm4
           /\ backups' = r.fs.backups
           /\ call' = [op |-> IF r.raised THEN "raised" ELSE "returned",
                       n |-> call.n + 1,
                       target_hex |-> target_hex,
                       backup_each_apply |-> backup_each_apply,
                       tint_buttons |-> tint_buttons,
                       drop_png_duplicates |-> drop_png_duplicates,
                       pre |-> ThemeRoot,
                       stamp |-> now,
                       template |-> r.template,
                       ret |-> r.ret,
                       details |-> r.details]
    /\ UNCHANGED <<now, blendIO, rcIO, famIO, fnIO, ui>>

\* a second passes
Tick ==
    /\ now < MaxClock
    /\ now' = now + 1
    /\ UNCHANGED <<templates, xfwm4, backups, call, blendIO, rcIO, famIO, fnIO, ui>>

Next ==
    \/ \E t \in Targets, b \in BOOLEAN, tint \in BOOLEAN, drop \in BOOLEAN :
          Generate(t, b, tint, drop)
    \/ Tick

Spec == Init /\ [][Next]_vars

TypeOK ==
    /\ xfwm4.kind \in {"absent", "dir"}
    /\ backups.kind \in {"absent", "dir"}
    /\ now \in 0..MaxClock
    /\ call.n \in 0..MaxRuns

\* the last call found a template folder and returned
Generated == call.op = "returned" /\ call.template # NoTemplate

\* the tree of the template folder the last call used
TemplateFiles == call.pre.templates[call.template].files

IsXpm(p) == EndsWith(PathName(p), XpmSuffix)
IsPng(p) == EndsWith(PathName(p), PngSuffix)
IsButton(p) == filename_prefix(p) \in XFWM4_BUTTON_PREFIXES

\* the XPM files of the working tree the last call rewrote
RewrittenXpm == {p \in DOMAIN xfwm4.files : IsXpm(p) /\ xfwm4.files[p] # TemplateFiles[p]}

\* the PNG files of the template that the last call removed from the working tree
RemovedPng == {p \in DOMAIN TemplateFiles : IsPng(p) /\ p \notin DOMAIN xfwm4.files}

\* the palette colours of a file
PaletteColours(bytes) ==
    LET pal == parse_palette_lines(read_text(bytes))
    IN  {pal[n][2] : n \in 1..Len(pal)}

\* the scenario of C4: a completed run with marker #e2da9d, target #396cb6,
\* tint_buttons false, a button XPM with the marker and a frame XPM with
\* #d8cf8a
ScenarioRun ==
    /\ call.op = "returned"
    /\ call.target_hex = ColTwilight
    /\ ~call.tint_buttons
    /\ find_xfwm4_template(call.pre.templates) # NoTemplate
    /\ call.pre.templates[find_xfwm4_template(call.pre.templates)] = Dir(TplScenario)

ScenarioFilesAndCounts ==
    /\ xfwm4.files[PathCloseXpm] = TplScenario[PathCloseXpm]
    /\ parse_palette_lines(read_text(xfwm4.files[PathTitleXpm])) = << << 0, ColFrameMapped >> >>
    /\ call.ret.files_modified = 1
    /\ call.ret.entries_modified = 1

C5_PngRemovedOnlyForRewrittenXpm ==
    Generated =>
        \A p \in RemovedPng :
            /\ call.drop_png_duplicates
            /\ \E q \in RewrittenXpm : PathStem(q) = PathStem(p)

\* C5 (amended): a PNG is removed from the working tree only if
\* drop_png_duplicates is set and an XPM with the same stem exists in the
\* working tree, whether or not that XPM was rewritten in this run.
C5_PngRemovedOnlyForExistingXpm ==
    Generated =>
        \A p \in RemovedPng :
            /\ call.drop_png_duplicates
            /\ \E q \in DOMAIN xfwm4.files : IsXpm(q) /\ PathStem(q) = PathStem(p)

C5_Witness ==
    /\ Generated
    /\ call.drop_png_duplicates
    /\ ~call.tint_buttons
    /\ \E p \in RemovedPng : \A q \in RewrittenXpm : PathStem(q) # PathStem(p)
    /\ \E p \in DOMAIN xfwm4.files : IsPng(p)

\* p.parent
PathParent(p) == SubSeq(p, 1, Len(p) - 1)

\* C6: remove_png_duplicates removes a PNG only if an XPM with the same stem
\* exists in the same directory (a sibling), never because of an equally
\* named XPM in a different subdirectory of the tree.
C6_PngRemovedOnlyForSiblingXpm ==
    Generated =>
        \A p \in RemovedPng :
            \E q \in DOMAIN xfwm4.files :
                /\ IsXpm(q)
                /\ PathStem(q) = PathStem(p)
                /\ PathParent(q) = PathParent(p)

\* C9: with tint_buttons false, after the generation every XPM of the working
\* tree whose filename prefix is in the button set is byte-identical to its
\* template copy, and a colour that occurs only in such files is not in the
\* family.
C9_ButtonsUntouchedWithoutTint ==
    (Generated /\ ~call.tint_buttons) =>
        /\ \A p \in DOMAIN xfwm4.files :
              (IsXpm(p) /\ IsButton(p)) =>
                  /\ p \in DOMAIN TemplateFiles
                  /\ xfwm4.files[p] = TemplateFiles[p]
        /\ \A n \in 1..Len(call.details.family) :
              \E p \in DOMAIN TemplateFiles :
                  /\ IsXpm(p)
                  /\ ~IsButton(p)
                  /\ call.details.family[n] \in PaletteColours(TemplateFiles[p])

C9_Witness ==
    /\ Generated
    /\ ~call.tint_buttons
    /\ call.ret.files_modified > 0
    /\ \E p \in DOMAIN xfwm4.files :
          /\ IsXpm(p)
          /\ IsButton(p)
          /\ PathName(p)[1] = "M"
          /\ \E n \in 1..Len(call.details.family) :
                call.details.family[n] \in PaletteColours(xfwm4.files[p])

\* no candidate name under the theme root is a folder
NoTemplateFolder(tpls) ==
    \A i \in 1..Len(TemplateCandidates) : tpls[TemplateCandidates[i]].kind # "dir"

\* C10: when no template folder exists under the theme root, the generation
\* returns a report with 0 files and 0 entries modified and mutates nothing:
\* the xfwm4 directory is unchanged and no backup is created, even with
\* backup_each_apply set.
C10_NoTemplateNoMutation ==
    (call.op # "idle" /\ NoTemplateFolder(call.pre.templates)) =>
        /\ call.op = "returned"
        /\ call.ret.msg = "no template folder found"
        /\ call.ret.files_modified = 0
        /\ call.ret.entries_modified = 0
        /\ ThemeRoot = call.pre

C10_Witness ==
    /\ call.op = "returned"
    /\ NoTemplateFolder(call.pre.templates)
    /\ call.backup_each_apply
    /\ call.pre.xfwm4.kind = "dir"
    /\ call.pre.templates[TemplateCandidates[1]] = IsFile
    /\ backups = NoEntry

\* the backup step of the last call found its timestamped name taken
BackupCollides ==
    /\ call.backup_each_apply
    /\ call.pre.xfwm4.kind = "dir"
    /\ call.pre.backups.kind = "dir"
    /\ call.stamp \in DOMAIN call.pre.backups.files

\* the template folder the last call had to find
FoundTemplate == find_xfwm4_template(call.pre.templates)

\* the last call got past its backup step with a template whose marker
\* family is empty or which has no XPM files
NothingToRecolor ==
    /\ call.op # "idle"
    /\ FoundTemplate # NoTemplate
    /\ ~BackupCollides
    /\ build_marker_family_colors(list_xpm_files(call.pre.templates[FoundTemplate]),
                                  call.tint_buttons,
                                  call.pre.templates[FoundTemplate].files) = << >>

FreshRun ==
    generate_xfwm4_from_template_sentinel(
        [templates |-> call.pre.templates, xfwm4 |-> NoEntry, backups |-> NoEntry],
        call.target_hex, FALSE, call.tint_buttons, call.drop_png_duplicates, call.stamp)

BackupRun ==
    /\ call.op # "idle"
    /\ call.backup_each_apply
    /\ call.pre.xfwm4.kind = "dir"
    /\ FoundTemplate # NoTemplate

\* the backups stored before the last call
BackupsBefore ==
    IF call.pre.backups.kind = "dir" THEN call.pre.backups.files ELSE << >>

\* C19: with a backup at each apply and an existing xfwm4 directory, every
\* run that finds a template stores the previous content of xfwm4 as a new
\* directory under xfwm4-backups, next to the ones stored before, and then
\* completes the regeneration, also when two runs start in the same second.
C19_EveryRunStoresNewBackupAndCompletes ==
    BackupRun =>
        /\ call.op = "returned"
        /\ backups.kind = "dir"
        /\ \E stamp \in DOMAIN backups.files \ DOMAIN BackupsBefore :
              /\ backups.files[stamp] = call.pre.xfwm4.files
              /\ DOMAIN backups.files = DOMAIN BackupsBefore \cup {stamp}
        /\ \A stamp \in DOMAIN BackupsBefore :
              backups.files[stamp] = BackupsBefore[stamp]
        /\ xfwm4 = FreshRun.fs.xfwm4

\* ------------------------------------------------------------------------
\* Specification of map_family_color
\* ------------------------------------------------------------------------

\* the colours of PRESETS
PresetColours ==
    { << "#", "a", "f", "c", "b", "e", "6" >>,
      << "#", "3", "9", "6", "c", "b", "6" >>,
      << "#", "8", "0", "d", "1", "d", "1" >>,
      << "#", "8", "b", "c", "4", "8", "3" >>,
      << "#", "b", "e", "d", "9", "9", "9" >>,
      << "#", "e", "2", "d", "a", "9", "d" >>,
      << "#", "e", "b", "b", "7", "6", "7" >>,
      << "#", "c", "e", "4", "4", "4", "4" >>,
      << "#", "e", "7", "8", "3", "b", "f" >>,
      << "#", "e", "7", "d", "0", "e", "5" >>,
      << "#", "9", "d", "8", "0", "b", "8" >>,
      << "#", "c", "3", "b", "4", "c", "5" >>,
      << "#", "b", "f", "b", "7", "a", "1" >>,
      << "#", "7", "2", "4", "c", "4", "c" >>,
      << "#", "9", "3", "9", "3", "9", "3" >>,
      << "#", "e", "3", "e", "3", "e", "3" >> }

\* targets: the presets, black, white, and a preset in upper case without '#'
MapTargets ==
    PresetColours \cup {ColBlack, << "#", "f", "f", "f", "f", "f", "f" >>,
                        << "C", "E", "4", "4", "4", "4" >>}

\* sources: the marker and colours near it
MapSources ==
    {XFWM4_MARKER_HEX, ColFrame, ColTieA, ColTieB,
     << "#", "e", "6", "d", "c", "9", "b" >>, << "#", "d", "c", "d", "6", "9", "4" >>,
     << "#", "E", "2", "D", "A", "9", "D" >>}

InitIdleCalls ==
    /\ InitIdleFs
    /\ blendIO = Idle
    /\ rcIO = Idle
    /\ famIO = Idle

InitMap ==
    /\ InitIdleCalls
    /\ \E hx \in MapSources, t \in MapTargets :
          fnIO = [op |-> "args", hx |-> hx, target_hex |-> t, result |-> << >>]

MapFamilyColor ==
    /\ fnIO.op = "args"
    /\ fnIO' = [fnIO EXCEPT !.op = "returned",
                            !.result = map_family_color(fnIO.hx, fnIO.target_hex)]
    /\ UNCHANGED <<templates, xfwm4, backups, now, call, blendIO, rcIO, famIO, ui>>

NextMap == MapFamilyColor

SpecMap == InitMap /\ [][NextMap]_vars

\* C13: for every valid target colour, map_family_color(marker, target)
\* returns the target colour (in its normalized form) unchanged.
C13_MarkerMapsToTarget ==
    (fnIO.op = "returned" /\ normalize_hex(fnIO.hx) = XFWM4_MARKER_HEX) =>
        fnIO.result = normalize_hex(fnIO.target_hex)

C13_Witness ==
    /\ fnIO.op = "returned"
    /\ fnIO.hx = XFWM4_MARKER_HEX
    /\ fnIO.target_hex = ColTwilight
    /\ fnIO.result = ColTwilight

\* ------------------------------------------------------------------------
\* Specification of normalize_hex
\* ------------------------------------------------------------------------

\* what a colour text is put together from: whitespace, marker characters,
\* digits (valid, too short, too long, not hexadecimal, empty), whitespace
HexTextLead == {<< >>, << " " >>, << "\t", "\n" >>}
HexTextMarks == {<< >>, << "#" >>, << "#", "#" >>}
HexTextDigits ==
    { << "e", "2", "d", "a", "9", "d" >>,
      << "E", "2", "D", "A", "9", "D" >>,
      << "a", "B", "0", "9", "f", "F" >>,
      << "e", "2", "d", "a", "9" >>,
      << "e", "2", "d", "a", "9", "d", "f", "f" >>,
      << "e", "2", "d", "a", "9", "g" >>,
      <<  >>,
      << "e", "2", " ", "a", "9", "d" >>,
      << "1", "2", "3", "4", "5", "#" >> }
HexTextTrail == {<< >>, << " " >>, << "\r", "\n" >>}

HexTexts ==
    {a \o b \o c \o d : a \in HexTextLead, b \in HexTextMarks, c \in HexTextDigits,
                        d \in HexTextTrail}
        \cup {NoneValue}

InitNormalize ==
    /\ InitIdleCalls
    /\ \E s \in HexTexts : fnIO = [op |-> "args", s |-> s, result |-> << >>]

NormalizeHex ==
    /\ fnIO.op = "args"
    /\ fnIO' = [fnIO EXCEPT !.op = "returned", !.result = normalize_hex(fnIO.s)]
    /\ UNCHANGED <<templates, xfwm4, backups, now, call, blendIO, rcIO, famIO, ui>>

NextNormalize == NormalizeHex

SpecNormalize == InitNormalize /\ [][NextNormalize]_vars

\* core is '#' and exactly 6 hex digits, or exactly 6 hex digits
IsRRGGBB(core) ==
    \/ Len(core) = 6 /\ \A k \in 1..6 : core[k] \in HexDigits
    \/ Len(core) = 7 /\ core[1] = "#" /\ \A k \in 2..7 : core[k] \in HexDigits

\* the texts s[a+1..b] that remain of s when whitespace is trimmed from both
\* ends and that are a colour
ColourCores(s) ==
    IF s = NoneValue
    THEN {}
    ELSE {core \in {SubSeq(s, a + 1, b) :
                       a \in {x \in 0..Len(s) : \A k \in 1..x : s[k] \in Whitespace},
                       b \in {y \in 0..Len(s) : \A k \in (y + 1)..Len(s) : s[k] \in Whitespace}} :
             IsRRGGBB(core)}

\* the text in lower case, with the '#'
Canonical(core) ==
    [k \in 1..7 |-> IF k = 1 THEN "#" ELSE Lower(core[Len(core) - 7 + k])]

\* C14: normalize_hex accepts its input exactly when, after trimming the
\* surrounding whitespace and adding a missing leading '#', it is '#' and
\* exactly 6 hex digits; it then returns that text in lower case with the
\* '#'; every other input (too short, too long, not hexadecimal, empty, None)
\* raises ValueError; normalize_hex is idempotent on what it accepts.
C14_NormalizeAcceptsExactlyRRGGBB ==
    fnIO.op = "returned" =>
        /\ (ColourCores(fnIO.s) = {}) <=> (fnIO.result = ValueError)
        /\ \A core \in ColourCores(fnIO.s) : fnIO.result = Canonical(core)
        /\ fnIO.result # ValueError => normalize_hex(fnIO.result) = fnIO.result

C14_Witness ==
    /\ fnIO.op = "returned"
    /\ fnIO.s = << "\t", "\n", "a", "B", "0", "9", "f", "F", " " >>
    /\ fnIO.result = << "#", "a", "b", "0", "9", "f", "f" >>

\* ------------------------------------------------------------------------
\* Specification of hue_delta_signed
\* ------------------------------------------------------------------------

\* the hues of [0,1) tried, in units of 1/HlsUnit
HueSteps == 20

HueGrid ==
    {(k * HlsUnit) \div HueSteps : k \in 0..(HueSteps - 1)}
        \cup {1, HlsUnit \div 10, (9 * HlsUnit) \div 10, HlsUnit - 1}

InitHue ==
    /\ InitIdleCalls
    /\ \E h1 \in HueGrid, h2 \in HueGrid :
          fnIO = [op |-> "args", h1 |-> h1, h2 |-> h2, result |-> 0]

HueDeltaSigned ==
    /\ fnIO.op = "args"
    /\ fnIO' = [fnIO EXCEPT !.op = "returned",
                            !.result = hue_delta_signed(fnIO.h1, fnIO.h2)]
    /\ UNCHANGED <<templates, xfwm4, backups, now, call, blendIO, rcIO, famIO, ui>>

NextHue == HueDeltaSigned

SpecHue == InitHue /\ [][NextHue]_vars

\* C18: for hues h1, h2 of [0,1), hue_delta_signed(h1, h2) lies in
\* [-0.5, 0.5], is congruent to h1 - h2 modulo 1, is 0 when h1 = h2, and
\* for (0.1, 0.9) is 0.2.
C18_HueDeltaIsShortArc ==
    fnIO.op = "returned" =>
        /\ -HlsUnit <= 2 * fnIO.result /\ 2 * fnIO.result <= HlsUnit
        /\ (fnIO.result - (fnIO.h1 - fnIO.h2)) % HlsUnit = 0
        /\ (fnIO.h1 = fnIO.h2 => fnIO.result = 0)
        /\ (fnIO.h1 = HlsUnit \div 10 /\ fnIO.h2 = (9 * HlsUnit) \div 10
               => fnIO.result = (2 * HlsUnit) \div 10)

\* the delta of (0.1, 0.9) has been computed: the difference wraps around
C18_Witness ==
    /\ fnIO.op = "returned"
    /\ fnIO.h1 = HlsUnit \div 10
    /\ fnIO.h2 = (9 * HlsUnit) \div 10
    /\ fnIO.h1 - fnIO.h2 < 0
    /\ fnIO.result > 0

\* ------------------------------------------------------------------------
\* Specification of the window Win7ColorTool
\* ------------------------------------------------------------------------

\* The window is the record ui. Its fields are the attributes of the object
\* (with their names), the pending GLib timeout sources, and what the tool
\* writes outside the process: css (the colour and opacity patched into
\* aero-elements.css), whisker and whisker_rc (menu-opacity in xfconf and in
\* the whiskermenu rc files), frame_opacity (xfconf), xfwm4 (the directory, named
\* by the target colour it was generated for, as the tree depends on the
\* template and the target only) and stamp_taken (xfwm4-backups holds a
\* backup named after the current second). session is what
\* _create_session_backup kept, opened what these were when the window opened.

\* most GLib timeout sources pending at a time
MaxSources == 3

\* self._apply_id, self._xfwm_id or self._restart_id without a timer
NoSource == 0

\* the xfwm4 directory or the CSS file as found when the window opened
Original == << "<original>" >>

\* no xfwm4 directory
Absent == << "<absent>" >>

\* PRESETS[0][1], the base colour of a window without stored settings
ColSky == << "#", "a", "f", "c", "b", "e", "6" >>

\* positions of the intensity slider tried: the default of a window
\* without stored settings
UiIntensities == {75}

opacity_to_percent(opacity) == RoundDiv(clamp(opacity, 0, PerMille), 10)

\* GLib.source_remove: the source of that id is no longer pending
source_remove(sources, id) == {src \in sources : src.id # id}

\* the id GLib.timeout_add gives a new source: ids are unique among the
\* pending sources, and no attribute of the window keeps the id of a source
\* that has fired or was removed, so the smallest unused id stands for it
NewSourceId(sources) ==
    Min({i \in 1..(Cardinality(sources) + 1) : \A src \in sources : src.id # i})

\* GLib.timeout_add(ms, cb) once the previous source of the attribute, if
\* any, has been removed
timeout_add(sources, id, cb) == sources \cup {[id |-> id, cb |-> cb]}

\* Mutation of schedule_apply: the pending timer is not removed.
schedule_apply_KeepsPending(w) ==
    IF ~w.auto_apply THEN w
    ELSE [w EXCEPT
            !.sources = timeout_add(w.sources, NewSourceId(w.sources),
                                    "_apply_debounced"),
            !._apply_id = NewSourceId(w.sources)]

schedule_apply(w) ==
    IF ~w.auto_apply THEN w
    ELSE [w EXCEPT
            !.sources = timeout_add(source_remove(w.sources, w._apply_id),
                            NewSourceId(source_remove(w.sources, w._apply_id)),
                            "_apply_debounced"),
            !._apply_id = NewSourceId(source_remove(w.sources, w._apply_id))]

schedule_xfwm(w) ==
    IF ~w.auto_apply THEN w
    ELSE IF ~w.update_xfwm4 THEN w
    ELSE [w EXCEPT
            !.sources = timeout_add(source_remove(w.sources, w._xfwm_id),
                            NewSourceId(source_remove(w.sources, w._xfwm_id)),
                            "_xfwm_debounced"),
            !._xfwm_id = NewSourceId(source_remove(w.sources, w._xfwm_id))]

\* the restart timer is replaced (lines 1212-1214 and 1228-1230)
schedule_restart(w) ==
    [w EXCEPT
        !.sources = timeout_add(source_remove(w.sources, w._restart_id),
                        NewSourceId(source_remove(w.sources, w._restart_id)),
                        "_do_restarts_now"),
        !._restart_id = NewSourceId(source_remove(w.sources, w._restart_id))]

\* restart_xfwm and restart_panel run, which leaves files and settings as
\* they are
do_restarts_now(w) == [w EXCEPT !._restart_id = NoSource]

\* the colour and opacity the controls stand for
Applied(w) ==
    compute_final_color_and_opacity(w.base_hex, w.enable_transparency, w.intensity)

\* backup_xfwm4 finds the name of this second taken: FileExistsError
GenerationRaises(w) ==
    /\ w.xfwm4_backup_each_apply
    /\ w.xfwm4 # Absent
    /\ w.stamp_taken

\* generate_xfwm4_from_template_sentinel on the theme of the window: the
\* backup, then the tree made of the template and the target colour
Regenerated(w, applied_hex) ==
    [w EXCEPT !.stamp_taken = @ \/ (w.xfwm4_backup_each_apply /\ w.xfwm4 # Absent),
              !.xfwm4 = applied_hex]

\* _apply_xfwm4_generation where the generation returns
apply_xfwm4_generation(w) ==
    schedule_restart(Regenerated(w, Applied(w)[1]))

\* the files and settings _apply_now writes before the XFWM4 step
Patched(w, applied) ==
    [w EXCEPT !.css = applied,
              !.whisker = opacity_to_percent(applied[2]),
              !.whisker_rc = opacity_to_percent(applied[2]),
              !.frame_opacity = opacity_to_percent(applied[2])]

\* the XFWM4 step of _apply_now: an exception of the generation is caught
ApplyXfwmStep(w, force_xfwm) ==
    IF force_xfwm /\ w.update_xfwm4 /\ ~GenerationRaises(w)
    THEN apply_xfwm4_generation(w)
    ELSE w

\* the restart step of _apply_now
ApplyRestartStep(w, force_restarts) ==
    IF force_restarts THEN do_restarts_now(w) ELSE schedule_restart(w)

apply_now(w, force_restarts, force_xfwm) ==
    ApplyRestartStep(ApplyXfwmStep(Patched(w, Applied(w)), force_xfwm),
                     force_restarts)

\* _restore_session_backup: what the session backup holds is written back,
\* then xfwm4 and the panel are restarted
restore_session_backup(w) ==
    [w EXCEPT !.css = Original,
              !.whisker = w.session.whisker,
              !.frame_opacity = w.session.frame_opacity,
              !.xfwm4 = IF w.session.xfwm4 = Absent THEN w.xfwm4 ELSE w.session.xfwm4,
              !.restored = w.restored + 1]

\* on_delete_event, delivered by self.close() and by the window manager;
\* the window is destroyed and the main loop quits
on_delete_event(w) ==
    [(IF ~w._committed THEN restore_session_backup(w) ELSE w) EXCEPT !.closed = TRUE]

\* the window after __init__: settings as stored (or their defaults), the
\* session backup taken, and the two timers __init__ schedules last
NewWindow(auto, update, backup, dir) ==
    schedule_xfwm(schedule_apply(
        [base_hex |-> ColSky, enable_transparency |-> TRUE, intensity |-> 75,
         auto_apply |-> auto, update_xfwm4 |-> update,
         xfwm4_backup_each_apply |-> backup,
         _apply_id |-> NoSource, _xfwm_id |-> NoSource, _restart_id |-> NoSource,
         sources |-> {},
         css |-> Original, whisker |-> 100, whisker_rc |-> 100,
         frame_opacity |-> 100, xfwm4 |-> dir, stamp_taken |-> FALSE,
         session |-> [whisker |-> 100, frame_opacity |-> 100, xfwm4 |-> dir],
         opened |-> [css |-> Original, whisker |-> 100, whisker_rc |-> 100,
                     frame_opacity |-> 100, xfwm4 |-> dir],
         _committed |-> FALSE, closed |-> FALSE, restored |-> 0,
         ran |-> [handler |-> "__init__", applied |-> FALSE]]))

InitUI ==
    /\ templates = Idle /\ xfwm4 = Idle /\ backups = Idle /\ call = Idle
    /\ blendIO = Idle /\ rcIO = Idle /\ famIO = Idle /\ fnIO = Idle
    /\ now = 0
    /\ \E auto \in BOOLEAN, update \in BOOLEAN, backup \in BOOLEAN,
          dir \in {Absent, Original} :
          ui = NewWindow(auto, update, backup, dir)

\* the handler has run and left the window as w
Handled(w, handler, applied) ==
    /\ Cardinality(w.sources) <= MaxSources
    /\ ui' = [w EXCEPT !.ran = [handler |-> handler, applied |-> applied]]
    /\ UNCHANGED <<templates, xfwm4, backups, now, call, blendIO, rcIO, famIO, fnIO>>

\* on_controls_changed: the transparency box or the intensity slider moved
OnControlsChanged(enable, intensity) ==
    /\ ~ui.closed
    /\ <<enable, intensity>> # <<ui.enable_transparency, ui.intensity>>
    /\ Handled(schedule_xfwm(schedule_apply(
                  [ui EXCEPT !.enable_transparency = enable,
                             !.intensity = intensity])),
               "on_controls_changed", FALSE)

\* the boxes of the settings expander tried
SettingsBoxes == {"chk_auto", "chk_update_xfwm4", "chk_xfwm_backup"}

\* on_settings_changed after one box was toggled: every box is read again
OnSettingsChanged(chk) ==
    /\ ~ui.closed
    /\ Handled(schedule_xfwm(schedule_apply(
                  [ui EXCEPT
                     !.auto_apply = IF chk = "chk_auto" THEN ~@ ELSE @,
                     !.update_xfwm4 = IF chk = "chk_update_xfwm4" THEN ~@ ELSE @,
                     !.xfwm4_backup_each_apply =
                         IF chk = "chk_xfwm_backup" THEN ~@ ELSE @])),
               "on_settings_changed", FALSE)

OnApplyClicked ==
    /\ ~ui.closed
    /\ Handled(apply_now(ui, TRUE, TRUE), "on_apply_clicked", TRUE)

\* on_save_clicked: apply, persist the settings, commit, close
OnSaveClicked ==
    /\ ~ui.closed
    /\ Handled(on_delete_event([apply_now(ui, TRUE, TRUE)
                                   EXCEPT !._committed = TRUE]),
               "on_save_clicked", TRUE)

\* on_cancel_clicked: restore, then close
OnCancelClicked ==
    /\ ~ui.closed
    /\ Handled(on_delete_event(restore_session_backup(ui)),
               "on_cancel_clicked", FALSE)

\* the close button of the window manager
OnDeleteEvent ==
    /\ ~ui.closed
    /\ Handled(on_delete_event(ui), "on_delete_event", FALSE)

\* a timer fires; its callback returns False, which destroys the source
Fired(w, src) == [w EXCEPT !.sources = @ \ {src}]

ApplyDebounced(src) ==
    /\ ~ui.closed
    /\ src.cb = "_apply_debounced"
    /\ Handled(Fired(apply_now([ui EXCEPT !._apply_id = NoSource], FALSE, FALSE),
                     src),
               "_apply_debounced", TRUE)

XfwmDebounced(src) ==
    /\ ~ui.closed
    /\ src.cb = "_xfwm_debounced"
    /\ Handled(Fired(IF GenerationRaises(ui)
                     THEN [ui EXCEPT !._xfwm_id = NoSource]
                     ELSE apply_xfwm4_generation([ui EXCEPT !._xfwm_id = NoSource]),
                     src),
               "_xfwm_debounced", TRUE)

DoRestartsNow(src) ==
    /\ ~ui.closed
    /\ src.cb = "_do_restarts_now"
    /\ Handled(Fired(do_restarts_now(ui), src), "_do_restarts_now", FALSE)

\* the wall clock reaches the next second: the name backup_xfwm4 would
\* give a backup is a new one
UiTick ==
    /\ ~ui.closed
    /\ ui.stamp_taken
    /\ ui' = [ui EXCEPT !.stamp_taken = FALSE]
    /\ UNCHANGED <<templates, xfwm4, backups, now, call, blendIO, rcIO, famIO, fnIO>>

NextUI ==
    \/ \E enable \in BOOLEAN, intensity \in UiIntensities :
          OnControlsChanged(enable, intensity)
    \/ \E chk \in SettingsBoxes : OnSettingsChanged(chk)
    \/ OnApplyClicked
    \/ OnSaveClicked
    \/ OnCancelClicked
    \/ OnDeleteEvent
    \/ \E src \in ui.sources : ApplyDebounced(src)
    \/ \E src \in ui.sources : XfwmDebounced(src)
    \/ \E src \in ui.sources : DoRestartsNow(src)
    \/ UiTick

SpecUI == InitUI /\ [][NextUI]_vars

\* the pending timers of a callback
Pending(cb) == {src \in ui.sources : src.cb = cb}

\* an apply timer is pending in the main loop of an open window
ApplyTimerDue == ~ui.closed /\ Pending("_apply_debounced") # {}

\* the main loop runs: an apply timer that stays pending fires.  This is
\* weak fairness of the timer's callback, WF_vars(\E src \in ui.sources :
\* ApplyDebounced(src)), with the callback's enabling condition written as
\* the state predicate ApplyTimerDue
SpecUILive ==
    /\ InitUI
    /\ [][NextUI]_vars
    /\ \/ []<>(~ApplyTimerDue)
       \/ []<><<\E src \in ui.sources : ApplyDebounced(src)>>_vars

\* the two debounced callbacks
DebouncedCallbacks == {"_apply_debounced", "_xfwm_debounced"}

\* C20: while "Apply automatically while dragging" is off, the last handler
\* that ran is not _apply_debounced or _xfwm_debounced, timers scheduled
\* before the switch included, and what was applied was applied by the
\* Apply or the Save button.
C20_NoDebouncedRunWhileAutoApplyOff ==
    ~ui.auto_apply =>
        /\ ui.ran.handler \notin DebouncedCallbacks
        /\ (ui.ran.applied => ui.ran.handler \in {"on_apply_clicked", "on_save_clicked"})

\* C21: in every state of the window at most one restart timer is pending,
\* and _restart_id is None exactly when no restart timer is pending, so that
\* no click on Apply leaves a restart timer behind to run _do_restarts_now a
\* second time.
C21_OneRestartTimerTracked ==
    /\ Cardinality(Pending("_do_restarts_now")) <= 1
    /\ (ui._restart_id = NoSource <=> Pending("_do_restarts_now") = {})

\* C22: when the window has been closed, _restore_session_backup has run
\* exactly once if the window was closed without saving (Cancel button or
\* the close button of the window manager) and not at all if it was closed
\* by "Save changes".
C22_RestoreOnceUnlessSaved ==
    ui.closed => ui.restored = (IF ui._committed THEN 0 ELSE 1)

\* what the tool modifies outside the process
Artifacts(w) ==
    [css |-> w.css, whisker |-> w.whisker, whisker_rc |-> w.whisker_rc,
     frame_opacity |-> w.frame_opacity, xfwm4 |-> w.xfwm4]

\* C23: once the window has been closed without saving, the CSS file, the
\* Whisker menu-opacity in xfconf and in the rc files, the XFWM4 frame
\* opacity and the xfwm4 directory are as they were when the window opened;
\* an xfwm4 directory that did not exist then does not exist.
C23_CloseWithoutSavingRestoresAll ==
    (ui.closed /\ ~ui._committed) => Artifacts(ui) = ui.opened

\* at most one apply timer is pending, and _apply_id names it
ApplyTimerTracked ==
    /\ Cardinality(Pending("_apply_debounced")) <= 1
    /\ (ui._apply_id = NoSource <=> Pending("_apply_debounced") = {})

\* the debounced apply that ran last wrote what the controls stand for, and
\* left no apply timer behind
DebouncedApplyIsCurrent ==
    ui.ran.handler = "_apply_debounced" =>
        /\ ui.css = Applied(ui)
        /\ Pending("_apply_debounced") = {}

\* C25: at most one apply timer is pending at any time, so a burst of
\* changes leaves one timer and not one per change; while auto_apply is on
\* a pending apply timer leads to a run of _apply_debounced (unless the
\* window is closed first), which applies the values the controls have when
\* it fires and leaves no apply timer pending.
C25_DebouncedApplyRunsOnce ==
    /\ [](ApplyTimerTracked /\ DebouncedApplyIsCurrent)
    /\ ((ui.auto_apply /\ Pending("_apply_debounced") # {})
           ~> (ui.ran.handler = "_apply_debounced" \/ ui.closed))

\* a debounced apply has run after the transparency box was unticked
C25_Witness ==
    /\ ui.auto_apply
    /\ ~ui.enable_transparency
    /\ ui.ran.handler = "_apply_debounced"
    /\ ui.css = Applied(ui)
    /\ ui.css # Original

====
